---- MODULE Spec2Model ----
(***************************************************************************)
(* A model of gsshapy's grid pipeline:                                     *)
(*   - download_hrrr_for_gssha (gsshapy/grid/hrrr_to_gssha.py), the HRRR    *)
(*     forecast fetcher, as a loop over the forecast hours;                *)
(*   - LSMGridReader (gsshapy/grid/extension.py), the 'lsm' accessor of an  *)
(*     xarray dataset, as a handle with memoized fields over a dataset;    *)
(*   - HmetFile (gsshapy/orm/hmet.py), the reader and writer of the        *)
(*     meteorological series file;                                         *)
(*   - GSSHAFramework (gsshapy/modeling/framework.py), the steps of         *)
(*     run_forecast and run over the cards of the project file.            *)
(***************************************************************************)
EXTENDS Integers, Sequences, FiniteSets, TLC

None == "None"

Range(s) == {s[i] : i \in 1..Len(s)}

(***************************************************************************)
(* Bounds of the model.                                                    *)
(***************************************************************************)
\* number of calls of download_hrrr_for_gssha in one behaviour
MaxCalls == 2
\* number of os.remove calls that raise OSError during one cleanup
MaxRemoveFailures == 1
\* number of times the caller edits the attributes of an open dataset
MaxAttrChanges == 1
\* largest length of the time dimension of a dataset
MaxTime == 2
\* largest length of the x and of the y dimension of a dataset
MaxSize == 3
\* depth of nested property calls at which Python raises RecursionError
RecursionLimit == 3
\* largest number of levels of a 4-D variable
MaxLevels == 2
\* largest number of records of a series, and of lines of a file
MaxRecords == 3
\* number of _update_class_var calls between construction and run_forecast
MaxUpdates == 1

\* the state of one HmetFile object (gsshapy/orm/hmet.py)
VARIABLES
    hmetRecords,    \* self.hmetRecords of the file object
    openFile,       \* the text of the file written or read
    hret,           \* the last operation on the file object and its error
    hsource         \* history: hmetRecords when the text was written

hvars == <<hmetRecords, openFile, hret, hsource>>

\* the state of one GSSHAFramework object (gsshapy/modeling/framework.py)
VARIABLES
    self,            \* the optional attributes of the object: name -> None or value
    flags,           \* output_netcdf, write_hotstart, read_hotstart, hotstart_minimal_mode
    event_manager,   \* the class of self.event_manager, "" before construction
    projectCards,    \* self.project_manager.projectCards: card name -> value
    files,           \* the file system: the paths that exist, relative to gssha_directory
    kpc,             \* "new", "ready" after __init__, "done" or "raised" after run_forecast
    calls,           \* history: the calls run_forecast made on its collaborators, in order
    kret,            \* the outcome of the last method called on the object
    nupdates,        \* _update_class_var calls made since construction
    attrs_at_call,   \* history: the optional attributes when run_forecast was called
    cards_at_call,   \* history: projectCards when run_forecast was called
    cards_at_run,    \* history: projectCards when run() was entered
    written_project  \* the project file written by run(): None or its cards

kvars == <<self, flags, event_manager, projectCards, files, kpc, calls, kret,
           nupdates, attrs_at_call, cards_at_call, cards_at_run, written_project>>

(***************************************************************************)
(* PART 1 - download_hrrr_for_gssha                                        *)
(***************************************************************************)
VARIABLES
    fpc,                    \* position in the call: idle, loop, returned, raised
    ncalls,                 \* calls made so far
    start_hour,             \* forecast_start_hour_string of the running call
    hour_idx,               \* index of the next forecast hour of the for loop
    dir_exists,             \* the file system: out_directory exists
    found_dir,              \* history: out_directory existed when the call began
    disk,                   \* the file system: files present in out_directory
    downloaded_file_list,   \* the local list of the call
    requests,               \* history: the file name of every request issued
    responses,              \* history: the outcome of every request issued
    written,                \* history: files the running call opened for writing
    fresult                 \* the returned list, None before the return

fvars == <<fpc, ncalls, start_hour, hour_idx, dir_exists, found_dir, disk,
           downloaded_file_list, requests, responses, written, fresult>>

VARIABLES
    obj,        \* self._obj: the xarray dataset of the accessor, <<>> before one is opened
    handle,     \* the memoized fields of the LSMGridReader over obj
    ret,        \* the outcome of the last operation on the handle
    first_read, \* history: the value of the first successful read of each property
    nchanges,   \* attribute edits made by the caller since the dataset was opened
    before,     \* history: obj as it was before the last operation
    exported_by \* history: the method that returned obj, "" for a source dataset

gvars == <<obj, handle, ret, first_read, nchanges, before, exported_by>>

forecast_timestep_hour_string_array ==
    << "00", "01", "02", "03", "04",
       "05", "06", "07", "08", "09",
       "10", "11", "12", "13", "14",
       "15", "16", "17", "18" >>

NumHours == Len(forecast_timestep_hour_string_array)

\* values of forecast_start_hour_string the callers pass
StartHours == {"00", "13"}

\* 'hrrr.t{0}z.wrfsfcf{1}.grib2'.format(start hour, time step hour)
file_name(h0, h) == <<"hrrr.t", h0, "z.wrfsfcf", h, ".grib2">>

\* path.join(out_directory, file_name): one out_directory per behaviour
out_file(fn) == <<"out_directory", fn>>

\* the file requested by the loop iteration i of the running call
HourFile(i) == file_name(start_hour, forecast_timestep_hour_string_array[i])

\* the cleanup loop: remove(filename) for every filename of the list;
\* `failing` are the files whose remove raises OSError (swallowed)
RemoveFilesSkipFirst(d, l, failing) ==
    d \ (Range(IF l = <<>> THEN l ELSE Tail(l)) \ failing)

RemoveFiles(d, l, failing) == d \ (Range(l) \ failing)

\* the break that ends the loop after the cleanup
PcAfterFailureNoBreak == "loop"

PcAfterFailure == "returned"

\* `except OSError: pass` around mkdir left out: the error of an existing
\* directory ends the call
PcAfterMkdirUncaught(existed) == IF existed THEN "raised" ELSE "loop"

\* try: mkdir(out_directory) except OSError: pass - the call goes on to the
\* loop whether the directory existed or not
PcAfterMkdir(existed) == "loop"

InitFetch ==
    /\ fpc = "idle"
    /\ ncalls = 0
    /\ start_hour = None
    /\ hour_idx = 1
    /\ dir_exists = FALSE
    /\ found_dir = FALSE
    /\ disk = {}
    /\ downloaded_file_list = <<>>
    /\ requests = <<>>
    /\ responses = <<>>
    /\ written = {}
    /\ fresult = None

\* the part of a call before the loop, but for mkdir
EnterCall(h0) ==
    /\ fpc \in {"idle", "returned", "raised"}
    /\ ncalls < MaxCalls
    /\ ncalls' = ncalls + 1
    /\ start_hour' = h0
    /\ hour_idx' = 1
    /\ downloaded_file_list' = <<>>
    /\ requests' = <<>>
    /\ responses' = <<>>
    /\ written' = {}
    /\ fresult' = None
    /\ found_dir' = dir_exists
    /\ fpc' = PcAfterMkdir(dir_exists)
    /\ UNCHANGED <<disk, gvars, hvars, kvars>>

\* mkdir(out_directory) creates the directory, or raises OSError because it
\* exists already: the error is swallowed
Call ==
    \E h0 \in StartHours :
        /\ EnterCall(h0)
        /\ dir_exists' = TRUE

\* mkdir(out_directory) raises OSError for another reason (no parent
\* directory, no permission): swallowed as well, the directory is missing
CallMkdirError ==
    \E h0 \in StartHours :
        /\ EnterCall(h0)
        /\ ~dir_exists
        /\ dir_exists' = FALSE

InLoop == fpc = "loop" /\ hour_idx <= NumHours

\* one iteration: status ok, the response is streamed to out_file
IterOk ==
    /\ InLoop
    /\ dir_exists
    /\ requests' = Append(requests, HourFile(hour_idx))
    /\ responses' = Append(responses, "ok")
    /\ downloaded_file_list' =
           Append(downloaded_file_list, out_file(HourFile(hour_idx)))
    /\ disk' = disk \cup {out_file(HourFile(hour_idx))}
    /\ written' = written \cup {out_file(HourFile(hour_idx))}
    /\ hour_idx' = hour_idx + 1
    /\ UNCHANGED <<fpc, ncalls, start_hour, dir_exists, fresult, found_dir, gvars, hvars, kvars>>

\* one iteration: status not ok; the cleanup, the break and the return
IterFailWith(failing) ==
    /\ InLoop
    /\ requests' = Append(requests, HourFile(hour_idx))
    /\ responses' = Append(responses, "fail")
    /\ disk' = RemoveFiles(disk, downloaded_file_list, failing)
    /\ downloaded_file_list' = <<>>
    /\ fpc' = PcAfterFailure
    /\ fresult' = IF PcAfterFailure = "returned" THEN <<>> ELSE fresult
    /\ UNCHANGED <<ncalls, start_hour, hour_idx, dir_exists, written, found_dir, gvars, hvars, kvars>>

IterFail == IterFailWith({})

\* the same, with remove raising OSError for some of the files
IterFailRemoveError ==
    \E failing \in SUBSET (Range(downloaded_file_list) \cap disk) :
        /\ failing # {}
        /\ Cardinality(failing) <= MaxRemoveFailures
        /\ IterFailWith(failing)

\* one iteration: status ok, open(out_file, 'wb') raises (no directory)
IterOpenError ==
    /\ InLoop
    /\ ~dir_exists
    /\ requests' = Append(requests, HourFile(hour_idx))
    /\ responses' = Append(responses, "ok")
    /\ downloaded_file_list' =
           Append(downloaded_file_list, out_file(HourFile(hour_idx)))
    /\ fpc' = "raised"
    /\ UNCHANGED <<ncalls, start_hour, hour_idx, dir_exists, disk, written, fresult, found_dir, gvars, hvars, kvars>>

\* one iteration: status ok, the file is opened (created or truncated) and
\* iter_content or write raises before the response is complete
IterStreamError ==
    /\ InLoop
    /\ dir_exists
    /\ requests' = Append(requests, HourFile(hour_idx))
    /\ responses' = Append(responses, "ok")
    /\ downloaded_file_list' =
           Append(downloaded_file_list, out_file(HourFile(hour_idx)))
    /\ disk' = disk \cup {out_file(HourFile(hour_idx))}
    /\ written' = written \cup {out_file(HourFile(hour_idx))}
    /\ fpc' = "raised"
    /\ UNCHANGED <<ncalls, start_hour, hour_idx, dir_exists, fresult, found_dir, gvars, hvars, kvars>>

\* one iteration: requests.get itself raises (no connection)
IterRequestError ==
    /\ InLoop
    /\ requests' = Append(requests, HourFile(hour_idx))
    /\ responses' = Append(responses, "error")
    /\ fpc' = "raised"
    /\ UNCHANGED <<ncalls, start_hour, hour_idx, dir_exists, disk,
                   downloaded_file_list, written, fresult, found_dir, gvars, hvars, kvars>>

\* the loop is exhausted: return downloaded_file_list
Return ==
    /\ fpc = "loop"
    /\ hour_idx > NumHours
    /\ fresult' = downloaded_file_list
    /\ fpc' = "returned"
    /\ UNCHANGED <<ncalls, start_hour, hour_idx, dir_exists, disk,
                   downloaded_file_list, requests, responses, written, found_dir, gvars, hvars, kvars>>

(***************************************************************************)
(* PART 2 - LSMGridReader: values                                          *)
(*                                                                         *)
(* A Python value that may be None is a sequence: <<>> is None and <<v>>   *)
(* is the value v.  A dict (attrs) is a function whose DOMAIN is its keys. *)
(* A raised exception is a record [exc, arg].                              *)
(***************************************************************************)
Some(v) == <<v>>

IsNone(o) == o = <<>>

Exc(name, arg) == [exc |-> name, arg |-> arg]

\* dict.get(key): None when the key is missing
AttrGet(attrs, key) == IF key \in DOMAIN attrs THEN Some(attrs[key]) ELSE <<>>

\* array[:] on the first axis: the rows in their stored order
KeepRows(m) == m

\* array[::-1] on the first axis
ReverseRows(m) == [i \in 1..Len(m) |-> m[Len(m) + 1 - i]]

\* the accessor's variable and dimension names, set in __init__
y_var == "lat"

x_var == "lon"

time_var == "time"

y_dim == "y"

x_dim == "x"

time_dim == "time"

\* the data variables of the datasets of the model: (time, y, x) and
\* (time, level, y, x)
data_var == "T2"

(***************************************************************************)
(* Projection definitions: a proj4 string is the sequence of its           *)
(* <<key, value>> parameters.                                              *)
(***************************************************************************)
P4_LCC ==
    << <<"+proj", "lcc">>, <<"+lat_1", 30>>, <<"+lat_2", 60>>, <<"+lat_0", 34>>,
       <<"+lon_0", -98>>, <<"+datum", "WGS84">>, <<"+units", "m">> >>

\* geographic coordinates on the sphere of the WRF model: not EPSG 4326
P4_LONGLAT_SPHERE ==
    << <<"+proj", "longlat">>, <<"+a", 6370000>>, <<"+b", 6370000>> >>

P4_INIT_4326 == << <<"+init", "epsg:4326">> >>

P4_WGS84 == << <<"+proj", "longlat">>, <<"+datum", "WGS84">> >>

P4Param(p4, key) ==
    IF \E i \in 1..Len(p4) : p4[i][1] = key
    THEN Some((CHOOSE i \in 1..Len(p4) : p4[i][1] = key))
    ELSE <<>>

P4Value(p4, key) == p4[P4Param(p4, key)[1]][2]

\* osr.SpatialReference().ImportFromProj4(p4): the reference is geographic
\* when the projection is longlat; only '+init=epsg:N' names an authority
ImportFromProj4(p4) ==
    IF ~IsNone(P4Param(p4, "+init"))
    THEN [definition |-> P4_WGS84, geographic |-> TRUE, authority |-> Some("4326")]
    ELSE [definition |-> p4,
          geographic |-> P4Value(p4, "+proj") = "longlat",
          authority |-> <<>>]

\* osr.SpatialReference().ImportFromEPSG(4326)
ImportFromEPSG4326 ==
    [definition |-> P4_WGS84, geographic |-> TRUE, authority |-> Some("4326")]

\* projection.GetAuthorityCode(None): None when the reference names none
GetAuthorityCode(srs) == srs.authority

ExportToProj4(srs) == srs.definition

ExportToWkt(srs) == <<"WKT", srs.definition>>

\* str(x) of an authority code or of None
str(o) == IF IsNone(o) THEN "None" ELSE o[1]

\* wrf.projection.getproj(**proj_params).proj4(): MAP_PROJ 1 is Lambert
\* conformal, 3 is Mercator
WrfProj4(proj_params) ==
    << <<"+proj", IF proj_params["MAP_PROJ"] = 1 THEN "lcc" ELSE "merc">>,
       <<"+lat_1", proj_params["TRUELAT1"]>>,
       <<"+lat_2", proj_params["TRUELAT2"]>>,
       <<"+lon_0", proj_params["STAND_LON"]>>,
       <<"+a", 6370000>>, <<"+b", 6370000>> >>

\* 'Lambert Conformal' in label: a label is the sequence of its words
HasLambertConformal(label) ==
    \E i \in 1..(Len(label) - 1) :
        label[i] = "Lambert" /\ label[i + 1] = "Conformal"

LABEL_LAMBERT == <<"Lambert", "Conformal", "(secant,", "tangent,", "conical", "or", "bipolar)">>

LABEL_MERCATOR == <<"Mercator">>

(***************************************************************************)
(* Arrays.  A 2-D array is a sequence of rows, a 3-D array a sequence of   *)
(* 2-D arrays.  Coordinates are integers in half degrees, so that the half *)
(* cell of a fitted geotransform is an integer.                            *)
(***************************************************************************)
\* latitude of row y: north first in geographic order, south first in the
\* model-native (WRF) order
LatRow(y, ny, upside_down) ==
    IF upside_down THEN 60 + 2 * (y - 1) ELSE 60 + 2 * (ny - y)

Lat2D(ny, nx, upside_down) ==
    [y \in 1..ny |-> [x \in 1..nx |-> LatRow(y, ny, upside_down)]]

Lon2D(ny, nx) == [y \in 1..ny |-> [x \in 1..nx |-> -200 + 2 * (x - 1)]]

\* the cell (t, y, x) of the data variable holds a value of its own
Cell(t, y, x) == 100 * t + 10 * y + x

Data3D(nt, ny, nx) ==
    [t \in 1..nt |-> [y \in 1..ny |-> [x \in 1..nx |-> Cell(t, y, x)]]]

(***************************************************************************)
(* Time values.  A time value is <<kind, hour>>: kind "datetime64" is a     *)
(* datetime, "iso" the string 2016-09-14 01:00:00 and "wrf" the string     *)
(* 2016-09-14_01:00:00 of that hour.                                       *)
(***************************************************************************)
TimeKinds == {"datetime64", "iso", "wrf"}

TimeValues(kind, nt) == [t \in 1..nt |-> <<kind, 6 * t>>]

\* pd.to_datetime(values): ValueError on the WRF format
ToDatetimeDefault(values) ==
    IF \E i \in 1..Len(values) : values[i][1] = "wrf"
    THEN [err |-> Some(Exc("ValueError", "Unknown string format")), val |-> <<>>]
    ELSE [err |-> <<>>,
          val |-> [i \in 1..Len(values) |-> <<"datetime64", values[i][2]>>]]

\* pd.to_datetime(values, format="%Y-%m-%d_%H:%M:%S")
ToDatetimeWrf(values) ==
    IF \E i \in 1..Len(values) : values[i][1] = "iso"
    THEN [err |-> Some(Exc("ValueError", "does not match format")), val |-> <<>>]
    ELSE [err |-> <<>>,
          val |-> [i \in 1..Len(values) |-> <<"datetime64", values[i][2]>>]]

(***************************************************************************)
(* Datasets.                                                               *)
(***************************************************************************)
GT_STORED == <<-201, 2, 0, 67, 0, -2>>

GT_OTHER == <<0, 10, 0, 100, 0, -10>>

WrfAttrs == [MAP_PROJ |-> 1, TRUELAT1 |-> 30, TRUELAT2 |-> 60, STAND_LON |-> -98]

\* the global attributes: `proj4` and `gt` are None or a value, `wrf` a flag
GlobalAttrs(proj4, wrf, gt) ==
    LET keys == (IF IsNone(proj4) THEN {} ELSE {"proj4"})
                \cup (IF wrf THEN DOMAIN WrfAttrs ELSE {})
                \cup (IF IsNone(gt) THEN {} ELSE {"geotransform"})
    IN  [k \in keys |->
            IF k = "proj4" THEN proj4[1]
            ELSE IF k = "geotransform" THEN gt[1]
            ELSE WrfAttrs[k]]

\* the attributes of the latitude variable: `label` is None or a grid_type
LatAttrs(label) ==
    IF IsNone(label) THEN <<>>
    ELSE [grid_type |-> label[1], Latin1 |-> <<30>>, Latin2 |-> <<60>>, Lov |-> <<-98>>]

\* the variables: `latlon` says whether the coordinate variables exist; the
\* coordinates of a WRF file carry the time dimension and are upside down
Variables(latlon, label, wrf, kind, nt, ny, nx) ==
    LET names == {time_var, data_var}
                 \cup (IF latlon THEN {y_var, x_var} ELSE {})
    IN  [n \in names |->
            IF n = time_var
            THEN [dims |-> <<time_dim>>, attrs |-> <<>>, dtype |-> kind,
                  values |-> TimeValues(kind, nt)]
            ELSE IF n = data_var
            THEN [dims |-> <<time_dim, y_dim, x_dim>>, attrs |-> [units |-> "K"],
                  values |-> Data3D(nt, ny, nx)]
            ELSE IF n = y_var
            THEN IF wrf
                 THEN [dims |-> <<time_dim, y_dim, x_dim>>, attrs |-> LatAttrs(label),
                       values |-> [t \in 1..nt |-> Lat2D(ny, nx, TRUE)]]
                 ELSE [dims |-> <<y_dim, x_dim>>, attrs |-> LatAttrs(label),
                       values |-> Lat2D(ny, nx, FALSE)]
            ELSE IF wrf
                 THEN [dims |-> <<time_dim, y_dim, x_dim>>, attrs |-> <<>>,
                       values |-> [t \in 1..nt |-> Lon2D(ny, nx)]]
                 ELSE [dims |-> <<y_dim, x_dim>>, attrs |-> <<>>,
                       values |-> Lon2D(ny, nx)]]

Dataset(proj4, wrf, gt, latlon, label, kind, nt, ny, nx) ==
    [attrs |-> GlobalAttrs(proj4, wrf, gt),
     dims |-> [time |-> nt, y |-> ny, x |-> nx],
     vars |-> Variables(latlon, label, wrf, kind, nt, ny, nx)]

Proj4Choices == {<<>>, Some(P4_LCC), Some(P4_LONGLAT_SPHERE), Some(P4_INIT_4326)}

GtChoices == {<<>>, Some(GT_STORED)}

LabelChoices == {<<>>, Some(LABEL_LAMBERT), Some(LABEL_MERCATOR)}

\* datasets with every combination of projection metadata, one time step;
\* a WRF file always has its coordinate variables
MetaDatasets ==
    {Dataset(p, w, g, ll \/ w, lb, "iso", 1, 2, 2) :
        p \in Proj4Choices, w \in BOOLEAN, g \in GtChoices, ll \in BOOLEAN,
        lb \in LabelChoices}

\* three kinds of metadata: none, the WRF parameter set, a projection string
\* with a stored geotransform
BandMetas ==
    {<<<<>>, FALSE, <<>>>>, <<<<>>, TRUE, <<>>>>, <<Some(P4_LCC), FALSE, Some(GT_STORED)>>}

\* datasets with a time axis of every kind and length
TimeDatasets ==
    {Dataset(m[1], m[2], m[3], TRUE, <<>>, k, nt, 2, 2) :
        m \in BandMetas, k \in TimeKinds, nt \in 0..MaxTime}

\* datasets of every shape
ShapeDatasets ==
    {Dataset(m[1], m[2], m[3], TRUE, <<>>, "iso", 1, ny, nx) :
        m \in BandMetas, ny \in 1..MaxSize, nx \in 1..MaxSize}

BandDatasets == TimeDatasets \cup ShapeDatasets

\* a variable with a vertical dimension: (time, bottom_top, y, x)
level_var == "QVAPOR"

level_dim == "bottom_top"

Data4D(nt, nl, ny, nx) ==
    [t \in 1..nt |-> [l \in 1..nl |-> [y \in 1..ny |-> [x \in 1..nx |->
        1000 * l + Cell(t, y, x)]]]]

\* the dataset ds with the 4-D variable added
WithLevels(ds, nl) ==
    [ds EXCEPT
        !.dims = [time |-> ds.dims.time, y |-> ds.dims.y, x |-> ds.dims.x,
                  bottom_top |-> nl],
        !.vars = [n \in DOMAIN ds.vars \cup {level_var} |->
                     IF n = level_var
                     THEN [dims |-> <<time_dim, level_dim, y_dim, x_dim>>,
                           attrs |-> [units |-> "kg kg-1"],
                           values |-> Data4D(ds.dims.time, nl, ds.dims.y, ds.dims.x)]
                     ELSE ds.vars[n]]]

\* datasets with a 4-D variable, with and without the WRF attributes
LevelDatasets ==
    {WithLevels(Dataset(<<>>, w, <<>>, TRUE, <<>>, "iso", nt, ny, nx), nl) :
        w \in BOOLEAN, nt \in 1..MaxTime, nl \in 1..MaxLevels,
        ny \in 1..MaxSize, nx \in 1..MaxSize}

\* geotransforms <<c, a, b, f, d, e>> with every sign of the pixel sizes,
\* with and without rotation terms, singular ones included
Geotransforms ==
    {<<c, a, b, 66, d, e>> :
        c \in {-200, 0}, a \in {-2, 2, 4}, b \in {-2, 0, 2}, d \in {0, 2},
        e \in {-4, -2, 2}}

\* datasets of the largest shape that store a geotransform
PixelDatasets ==
    {Dataset(Some(P4_LCC), FALSE, Some(g), FALSE, <<>>, "iso", 1, MaxSize, MaxSize) :
        g \in Geotransforms}

(***************************************************************************)
(* PART 2 - LSMGridReader: the properties and methods, as functions of the *)
(* memoized fields h and of the dataset ds.  Each returns the fields after *)
(* the call, and the value returned or the exception raised.               *)
(***************************************************************************)
\* LSMGridReader.__init__: nothing is memoized
NewHandle ==
    [_projection |-> <<>>, _epsg |-> <<>>, _geotransform |-> <<>>,
     _affine |-> <<>>, _center |-> <<>>]

Ok(h, v, note) == [h |-> h, val |-> Some(v), err |-> <<>>, note |-> note]

Raise(h, e, note) == [h |-> h, val |-> <<>>, err |-> Some(e), note |-> note]

Failed(r) == ~IsNone(r.err)

\* `if self._x is None` guards the computation of every memoized property
NeverCached(field) == FALSE

IsCached(field) == ~IsNone(field)

RECURSIVE SumSeq(_)
SumSeq(s) == IF s = <<>> THEN 0 ELSE s[1] + SumSeq(Tail(s))

\* array.mean() of a 2-D array, as <<sum, count>>
Mean2D(m) ==
    <<SumSeq([y \in 1..Len(m) |-> SumSeq(m[y])]),
      SumSeq([y \in 1..Len(m) |-> Len(m[y])])>>

_load_wrf_projection(h, ds) ==
    LET possible_proj_params ==
            {"MAP_PROJ", "TRUELAT1", "TRUELAT2", "MOAD_CEN_LAT", "STAND_LON",
             "POLE_LAT", "POLE_LON", "CEN_LAT", "CEN_LON", "DX", "DY"}
        proj_params ==
            [k \in possible_proj_params \cap DOMAIN ds.attrs |-> ds.attrs[k]]
        srs == ImportFromProj4(WrfProj4(proj_params))
    IN  Ok([h EXCEPT !._projection = Some(srs)], srs, "MAP_PROJ")

\* the raise of the else branch evaluates the undefined name grid_type
_load_grib_projection(h, ds) ==
    LET lat_var_attrs == ds.vars[y_var].attrs
    IN  IF HasLambertConformal(lat_var_attrs["grid_type"])
        THEN LET proj4_str ==
                     << <<"+proj", "lcc">>,
                        <<"+lat_1", lat_var_attrs["Latin1"][1]>>,
                        <<"+lat_2", lat_var_attrs["Latin2"][1]>>,
                        <<"+lat_0", Mean2D(ds.vars[y_var].values)>>,
                        <<"+lon_0", lat_var_attrs["Lov"][1]>>,
                        <<"+datum", "WGS84">>, <<"+units", "m">> >>
                 srs == ImportFromProj4(proj4_str)
             IN  Ok([h EXCEPT !._projection = Some(srs)], srs, "grid_type")
        ELSE Raise(h, Exc("NameError", "grid_type"), "grid_type")

\* the property projection; the note is the metadata that resolved it,
\* "memo" when the memoized reference is returned
projection(h, ds) ==
    IF IsCached(h._projection) THEN Ok(h, h._projection[1], "memo")
    ELSE LET map_proj4 == AttrGet(ds.attrs, "proj4")
         IN  IF ~IsNone(map_proj4)
             THEN LET srs == ImportFromProj4(map_proj4[1])
                  IN  Ok([h EXCEPT !._projection = Some(srs)], srs, "proj4")
             ELSE IF "MAP_PROJ" \in DOMAIN ds.attrs
             THEN _load_wrf_projection(h, ds)
             ELSE IF y_var \notin DOMAIN ds.vars
             THEN Raise(h, Exc("KeyError", y_var), "grid_type")
             ELSE IF "grid_type" \in DOMAIN ds.vars[y_var].attrs
             THEN _load_grib_projection(h, ds)
             ELSE Ok([h EXCEPT !._projection = Some(ImportFromEPSG4326)],
                     ImportFromEPSG4326, "default")

\* the property epsg: the value is None or a code
epsg(h, ds) ==
    IF IsCached(h._epsg) THEN Ok(h, h._epsg, "memo")
    ELSE LET p == projection(h, ds)
         IN  IF Failed(p) THEN Raise(p.h, p.err[1], "")
             ELSE Ok([p.h EXCEPT !._epsg = GetAuthorityCode(p.val[1])],
                     GetAuthorityCode(p.val[1]), "")

\* the property latlon: the WRF grid is upside down
latlon(ds) ==
    IF "MAP_PROJ" \in DOMAIN ds.attrs
    THEN IF ds.vars[y_var].values = <<>>
         THEN Raise(<<>>, Exc("IndexError", "index 0 is out of bounds"), "wrf")
         ELSE Ok(<<>>, <<ReverseRows(ds.vars[y_var].values[1]),
                         ReverseRows(ds.vars[x_var].values[1])>>, "wrf")
    ELSE IF x_var \notin DOMAIN ds.vars THEN Raise(<<>>, Exc("KeyError", x_var), "")
    ELSE IF y_var \notin DOMAIN ds.vars THEN Raise(<<>>, Exc("KeyError", y_var), "")
    ELSE LET lon == ds.vars[x_var].values
             lat == ds.vars[y_var].values
         IN  Ok(<<>>,
                <<IF Len(ds.vars[y_var].dims) = 3 THEN lat[1] ELSE lat,
                  IF Len(ds.vars[x_var].dims) = 3 THEN lon[1] ELSE lon>>, "")

\* a numpy array as coords returns it: its number of dimensions and its values
NdArray(ndim, values) == [ndim |-> ndim, values |-> values]

\* the number of dimensions of the array that latlon returns for the
\* coordinate variable `name`: lat[0, ::-1] drops the time axis of a WRF
\* variable, and `if lat.ndim == 3` the first axis of any other 3-D variable
LatlonNdim(ds, name) ==
    IF "MAP_PROJ" \in DOMAIN ds.attrs THEN Len(ds.vars[name].dims) - 1
    ELSE IF Len(ds.vars[name].dims) = 3 THEN 2
    ELSE Len(ds.vars[name].dims)

\* pyproj.transform(Proj(init='epsg:4326'), Proj(proj4), x, y) of one
\* coordinate: degrees stay degrees, a projected reference gives metres
TransformValue(srs, v) == IF srs.geographic THEN v ELSE 100 * v

Transform2D(srs, m) ==
    [y \in 1..Len(m) |-> [x \in 1..Len(m[y]) |-> TransformValue(srs, m[y][x])]]

\* mean spacing between adjacent samples; no spacing with one sample
Spacing(first, last, n) == IF n = 1 THEN 0 ELSE (last - first) \div (n - 1)

\* lib.grid_tools.geotransform_from_latlon of 2-D arrays: pixel size from
\* the mean spacing along each axis, origin at the corner of the first pixel
geotransform_from_latlon(lats, lons) ==
    LET ny == Len(lats)
        nx == Len(lats[1])
        dx == Spacing(lons[1][1], lons[1][nx], nx)
        dy == Spacing(lats[1][1], lats[ny][1], ny)
    IN  <<lons[1][1] - dx \div 2, dx, 0, lats[1][1] - dy \div 2, 0, dy>>

\* str(self.epsg) != '4326' selects the fit from native coordinates
UsesLatlonInstead(code) == str(code) = "4326"

UsesNativeCoords(code) == str(code) # "4326"

\* Affine.from_gdal(c, a, b, f, d, e)
AffineFromGdal(g) ==
    [a |-> g[2], b |-> g[3], c |-> g[1], d |-> g[5], e |-> g[6], f |-> g[4]]

\* the determinant of the linear part of an affine
AffineDeterminant(af) == af.a * af.e - af.b * af.d

\* (~affine) * (x, y) of the affine package: the inverse applied to a point.
\* Each coordinate of the result is the fraction <<numerator, denominator>>
AffineInverseApply(af, x, y) ==
    << <<af.e * (x - af.c) - af.b * (y - af.f), AffineDeterminant(af)>>,
       <<af.a * (y - af.f) - af.d * (x - af.c), AffineDeterminant(af)>> >>

\* affine * (col, row): the corner of the pixel
AffineAtCorner(af, col, row) ==
    <<af.c + af.a * col + af.b * row, af.f + af.d * col + af.e * row>>

\* affine * (col + 0.5, row + 0.5); the coefficients of the model are even
AffineAtCenter(af, col, row) ==
    <<af.c + (af.a * (2 * col + 1) + af.b * (2 * row + 1)) \div 2,
      af.f + (af.d * (2 * col + 1) + af.e * (2 * row + 1)) \div 2>>

\* array.mean(axis=1) and array.mean(axis=0) of a 2-D array, as <<sum, count>>
MeanAxis1(m) == [y \in 1..Len(m) |-> <<SumSeq(m[y]), Len(m[y])>>]

MeanAxis0(m, nx) ==
    [x \in 1..nx |-> <<SumSeq([y \in 1..Len(m) |-> m[y][x]]), Len(m)>>]

\* F(v) with v evaluated once, however often F uses it
Bind(v, F(_)) == CHOOSE out \in {F(r) : r \in {v}} : TRUE

RECURSIVE geotransform(_, _, _)
RECURSIVE affine(_, _, _)
RECURSIVE coords(_, _, _, _)

\* the fit of the geotransform from the coordinates c, memoized
FitGeotransform(c, path) ==
    IF Failed(c) THEN Raise(c.h, c.err[1], path)
    ELSE Bind(geotransform_from_latlon(c.val[1][1].values, c.val[1][2].values),
              LAMBDA g : Ok([c.h EXCEPT !._geotransform = Some(g)], g, path))

\* the property geotransform; the note is the path that computed it.
\* `depth` counts the nested reads of the property that are in progress
geotransform(h, ds, depth) ==
    IF depth > RecursionLimit
    THEN Raise(h, Exc("RecursionError", "maximum recursion depth exceeded"), "")
    ELSE IF IsCached(h._geotransform) THEN Ok(h, h._geotransform[1], "memo")
    ELSE IF ~IsNone(AttrGet(ds.attrs, "geotransform"))
    THEN Ok([h EXCEPT !._geotransform = Some(ds.attrs["geotransform"])],
            ds.attrs["geotransform"], "stored")
    ELSE Bind(epsg(h, ds), LAMBDA e :
             IF Failed(e) THEN Raise(e.h, e.err[1], "")
             ELSE IF UsesNativeCoords(e.val[1])
             THEN Bind(coords(e.h, ds, FALSE, depth),
                       LAMBDA c : FitGeotransform(c, "native"))
             ELSE Bind(latlon(ds), LAMBDA ll :
                      IF Failed(ll) THEN Raise(e.h, ll.err[1], "latlon")
                      ELSE FitGeotransform(
                               Ok(e.h, <<NdArray(LatlonNdim(ds, y_var), ll.val[1][1]),
                                         NdArray(LatlonNdim(ds, x_var), ll.val[1][2])>>,
                                  ""), "latlon")))

\* the property dx: geotransform[1]
dx(h, ds) ==
    Bind(geotransform(h, ds, 0), LAMBDA g :
        IF Failed(g) THEN Raise(g.h, g.err[1], "")
        ELSE Ok(g.h, g.val[1][2], ""))

\* the property dy: -geotransform[-1]
dy(h, ds) ==
    Bind(geotransform(h, ds, 0), LAMBDA g :
        IF Failed(g) THEN Raise(g.h, g.err[1], "")
        ELSE Ok(g.h, -g.val[1][Len(g.val[1])], ""))

\* the property affine
affine(h, ds, depth) ==
    IF IsCached(h._affine) THEN Ok(h, h._affine[1], "memo")
    ELSE Bind(geotransform(h, ds, depth), LAMBDA g :
             IF Failed(g) THEN Raise(g.h, g.err[1], "")
             ELSE Ok([g.h EXCEPT !._affine = Some(AffineFromGdal(g.val[1]))],
                     AffineFromGdal(g.val[1]), ""))

\* pixel2coord(col, row), base-0
pixel2coord(h, ds, col, row, depth) ==
    Bind(affine(h, ds, depth), LAMBDA af :
        IF Failed(af) THEN Raise(af.h, af.err[1], "")
        ELSE Ok(af.h, AffineAtCenter(af.val[1], col, row), ""))

\* the rest of coords after its try block raised KeyError: the coordinates of
\* every pixel through pixel2coord, the first of which memoizes the affine.
\* `ll` is the outcome of latlon, h1 the fields after the try block
CoordsByPixel(h1, ds, as_2d, ll, first) ==
    LET x_size == ds.dims[x_dim]
        y_size == ds.dims[y_dim]
        x_2d_coords ==
            [y \in 1..y_size |-> [x \in 1..x_size |->
                AffineAtCenter(first.h._affine[1], x - 1, y - 1)[1]]]
        y_2d_coords ==
            [y \in 1..y_size |-> [x \in 1..x_size |->
                AffineAtCenter(first.h._affine[1], x - 1, y - 1)[2]]]
        h2 == IF x_size * y_size > 0 THEN first.h ELSE h1
    IN  IF x_size * y_size > 0 /\ Failed(first)
        THEN Raise(first.h, first.err[1], "pixel")
        ELSE IF ~as_2d
        THEN IF Failed(ll)
             THEN Raise(h2, Exc("UnboundLocalError", "y_coords"), "pixel")
             ELSE Ok(h2, <<NdArray(LatlonNdim(ds, y_var) - 1, MeanAxis1(ll.val[1][1])),
                           NdArray(1, MeanAxis0(x_2d_coords, x_size))>>, "pixel")
        ELSE Ok(h2, <<NdArray(2, y_2d_coords), NdArray(2, x_2d_coords)>>, "pixel")

\* the try block of coords: latlon, then the transform into the projection
CoordsTry(h, ds) ==
    Bind(latlon(ds), LAMBDA ll :
        IF Failed(ll) THEN [ll EXCEPT !.h = h]
        ELSE Bind(projection(h, ds), LAMBDA p :
                 IF Failed(p) THEN p
                 ELSE Ok(p.h, <<NdArray(LatlonNdim(ds, y_var),
                                        Transform2D(p.val[1], ll.val[1][1])),
                                NdArray(LatlonNdim(ds, x_var),
                                        Transform2D(p.val[1], ll.val[1][2]))>>,
                         "latlon")))

\* coords(as_2d): the note is "latlon" when the coordinates are the
\* transformed latitude/longitude, "pixel" when they are recomputed
coords(h, ds, as_2d, depth) ==
    Bind(CoordsTry(h, ds), LAMBDA t :
        IF ~Failed(t) THEN t
        ELSE IF t.err[1].exc # "KeyError" THEN Raise(t.h, t.err[1], "")
        ELSE Bind(latlon(ds), LAMBDA ll :
                 IF ds.dims[x_dim] * ds.dims[y_dim] > 0
                 THEN Bind(pixel2coord(t.h, ds, 0, 0, depth + 1),
                           LAMBDA first : CoordsByPixel(t.h, ds, as_2d, ll, first))
                 ELSE CoordsByPixel(t.h, ds, as_2d, ll, Ok(t.h, <<>>, ""))))

\* the property center
center(h, ds) ==
    IF IsCached(h._center) THEN Ok(h, h._center[1], "memo")
    ELSE LET ll == latlon(ds)
         IN  IF Failed(ll) THEN Raise(h, ll.err[1], "")
             ELSE LET c == <<Mean2D(ll.val[1][2]), Mean2D(ll.val[1][1])>>
                  IN  Ok([h EXCEPT !._center = Some(c)], c, "")

(***************************************************************************)
(* PART 2 - LSMGridReader: to_datetime, resample, to_utm, getvar           *)
(***************************************************************************)
\* self._obj[self.time_var].values = v, with v an array of datetimes
SetTimeAndDataValues(ds, v) ==
    [ds EXCEPT !.vars[time_var].values = v,
               !.vars[time_var].dtype = "datetime64",
               !.vars[data_var].values = <<>>]

SetTimeValues(ds, v) ==
    [ds EXCEPT !.vars[time_var].values = v,
               !.vars[time_var].dtype = "datetime64"]

\* to_datetime: converts the time variable of the dataset in place; the
\* result is the dataset after the call and the exception raised, if any
to_datetime(ds) ==
    LET time_values == ds.vars[time_var].values
        converted(v) == SetTimeValues(ds, v)
    IN  IF ds.vars[time_var].dtype = "datetime64"
        THEN [ds |-> ds, err |-> <<>>]
        ELSE IF ~Failed(ToDatetimeDefault(time_values))
        THEN [ds |-> converted(ToDatetimeDefault(time_values).val), err |-> <<>>]
        ELSE IF ~Failed(ToDatetimeWrf(time_values))
        THEN [ds |-> converted(ToDatetimeWrf(time_values).val), err |-> <<>>]
        ELSE [ds |-> ds, err |-> ToDatetimeWrf(time_values).err]

\* the grid that resample is given to match
MATCH_GRID ==
    [proj4 |-> P4_LCC, geotransform |-> GT_OTHER,
     lats |-> <<<<12, 12>>, <<10, 10>>>>, lons |-> <<<<20, 22>>, <<20, 22>>>>]

P4_UTM == << <<"+proj", "utm">>, <<"+zone", 14>>, <<"+datum", "WGS84">> >>

\* lib.grid_tools.resample_grid(ArrayGrid(band, wkt, geotransform), match_grid):
\* the band on the grid of match_grid
resample_grid(in_array, wkt_projection, gt, match_grid) ==
    [np_array |-> [from |-> in_array, wkt |-> wkt_projection, gt |-> gt,
                   onto |-> match_grid.geotransform],
     proj4 |-> match_grid.proj4,
     geotransform |-> match_grid.geotransform,
     lats |-> match_grid.lats,
     lons |-> match_grid.lons]

\* lib.grid_tools.gdal_reproject(ArrayGrid(band, wkt, geotransform).dataset,
\* src_srs, dst_srs, GRA_Average): the band on a grid in dst_srs
gdal_reproject(in_array, wkt_projection, gt, dst_srs) ==
    [np_array |-> [from |-> in_array, wkt |-> wkt_projection, gt |-> gt,
                   onto |-> dst_srs.definition],
     proj4 |-> dst_srs.definition,
     geotransform |-> GT_OTHER,
     lats |-> <<<<12>>, <<10>>>>,
     lons |-> <<<<20>>, <<20>>>>]

\* lib.grid_tools.utm_proj_from_latlon(center_lat, center_lon, as_osr=True)
utm_proj_from_latlon(center_lat, center_lon) == ImportFromProj4(P4_UTM)

\* _export_dataset(variable, new_data, grid) on the dataset ds
\* an export that stores the projection string only
ExportAttrsProj4Only(grid) == [proj4 |-> grid.proj4]

\* attrs={'proj4': grid.proj4, 'geotransform': grid.geotransform}
ExportAttrs(grid) == [proj4 |-> grid.proj4, geotransform |-> grid.geotransform]

_export_dataset(ds, variable, new_data, grid) ==
    IF y_var \notin DOMAIN ds.vars THEN [err |-> Some(Exc("KeyError", y_var)), val |-> <<>>]
    ELSE IF x_var \notin DOMAIN ds.vars THEN [err |-> Some(Exc("KeyError", x_var)), val |-> <<>>]
    ELSE [err |-> <<>>,
          val |-> Some(
            [attrs |-> ExportAttrs(grid),
             dims |-> [time |-> Len(new_data), y |-> Len(grid.lats),
                       x |-> Len(grid.lats[1])],
             vars |-> [n \in {variable, y_var, x_var, time_var} |->
                 IF n = variable
                 THEN [dims |-> <<"time", "y", "x">>, attrs |-> ds.vars[variable].attrs,
                       values |-> new_data]
                 ELSE IF n = y_var
                 THEN [dims |-> <<"y", "x">>, attrs |-> ds.vars[y_var].attrs,
                       values |-> grid.lats]
                 ELSE IF n = x_var
                 THEN [dims |-> <<"y", "x">>, attrs |-> ds.vars[x_var].attrs,
                       values |-> grid.lons]
                 ELSE [dims |-> <<"time">>, attrs |-> ds.vars[time_var].attrs,
                       dtype |-> ds.vars[time_var].dtype,
                       values |-> ds.vars[time_var].values]]])]

\* what the band loops of resample and to_utm leave: the fields after the
\* first read of projection and geotransform, and the exception they raise
BandLoopReads(h, ds) ==
    LET p == projection(h, ds)
        g == geotransform(p.h, ds, 0)
    IN  IF ds.dims[time_dim] = 0 THEN [h |-> h, err |-> <<>>]
        ELSE IF Failed(p) THEN [h |-> p.h, err |-> p.err]
        ELSE IF Failed(g) THEN [h |-> g.h, err |-> g.err]
        ELSE [h |-> g.h, err |-> <<>>]

\* the band loop runs range(dims[time]) in ascending order
BandOrder(n) == [i \in 1..n |-> i]

\* the tail of resample and to_utm: to_datetime, then _export_dataset with the
\* grid of the last band, a name that is unbound when the loop ran no band.
\* The result has the fields, the dataset after the call and the outcome.
ExportBands(h, ds, variable, grids) ==
    LET dt == to_datetime(ds)
        ex == _export_dataset(dt.ds, variable,
                              [i \in 1..Len(grids) |-> grids[i].np_array],
                              grids[Len(grids)])
    IN  IF Failed(dt) THEN [h |-> h, ds |-> dt.ds, val |-> <<>>, err |-> dt.err]
        ELSE IF grids = <<>>
        THEN [h |-> h, ds |-> dt.ds, val |-> <<>>,
              err |-> Some(Exc("UnboundLocalError", "grid of the last band"))]
        ELSE [h |-> h, ds |-> dt.ds, val |-> ex.val, err |-> ex.err]

\* resample(variable, match_grid)
resample(h, ds, variable, match_grid) ==
    LET rd == BandLoopReads(h, ds)
        order == BandOrder(ds.dims[time_dim])
        grids == [i \in 1..Len(order) |->
                     resample_grid(ds.vars[variable].values[order[i]],
                                   ExportToWkt(rd.h._projection[1]),
                                   rd.h._geotransform[1], match_grid)]
    IN  IF Failed(rd) THEN [h |-> rd.h, ds |-> ds, val |-> <<>>, err |-> rd.err]
        ELSE ExportBands(rd.h, ds, variable, grids)

\* to_utm(variable)
to_utm(h, ds, variable) ==
    LET c == center(h, ds)
        utm_proj == utm_proj_from_latlon(c.val[1][2], c.val[1][1])
        rd == BandLoopReads(c.h, ds)
        order == BandOrder(ds.dims[time_dim])
        grids == [i \in 1..Len(order) |->
                     gdal_reproject(ds.vars[variable].values[order[i]],
                                    ExportToWkt(rd.h._projection[1]),
                                    rd.h._geotransform[1], utm_proj)]
    IN  IF Failed(c) THEN [h |-> c.h, ds |-> ds, val |-> <<>>, err |-> c.err]
        ELSE IF Failed(rd) THEN [h |-> rd.h, ds |-> ds, val |-> <<>>, err |-> rd.err]
        ELSE ExportBands(rd.h, ds, variable, grids)

\* to_tif(variable, time_index, out_path): the value is the ArrayGrid that is
\* written to out_path, the band with the projection and geotransform
to_tif(h, ds, variable, time_index) ==
    LET p == projection(h, ds)
        g == geotransform(p.h, ds, 0)
    IN  IF time_index >= Len(ds.vars[variable].values)
        THEN [h |-> h, ds |-> ds, val |-> <<>>,
              err |-> Some(Exc("IndexError", "time_index"))]
        ELSE IF Failed(p) THEN [h |-> p.h, ds |-> ds, val |-> <<>>, err |-> p.err]
        ELSE IF Failed(g) THEN [h |-> g.h, ds |-> ds, val |-> <<>>, err |-> g.err]
        ELSE [h |-> g.h, ds |-> ds, err |-> <<>>,
              val |-> Some([from |-> ds.vars[variable].values[time_index + 1],
                            wkt |-> ExportToWkt(p.val[1]),
                            gt |-> g.val[1]])]

\* the indices (base 1) that the Python slice(start, stop) selects on an
\* axis of length n: a negative bound counts from the end, both are clipped
SliceBound(b, n) ==
    IF b < 0 THEN (IF b + n < 0 THEN 0 ELSE b + n) ELSE (IF b > n THEN n ELSE b)

SliceIndices(start, stop, n) ==
    LET lo == SliceBound(start, n)
        hi == SliceBound(stop, n)
    IN  [i \in 1..(IF hi > lo THEN hi - lo ELSE 0) |-> lo + i]

\* _getvar(variable, xslice, yslice): the values at the selected rows and
\* columns of every time step, and of every level of a 4-D variable
_getvar(ds, variable, xsel, ysel) ==
    LET v == ds.vars[variable].values
        window(m) == [y \in 1..Len(ysel) |-> [x \in 1..Len(xsel) |-> m[ysel[y]][xsel[x]]]]
    IN  IF Len(ds.vars[variable].dims) = 4
        THEN [t \in 1..Len(v) |-> [l \in 1..Len(v[t]) |-> window(v[t][l])]]
        ELSE [t \in 1..Len(v) |-> window(v[t])]

\* the y window of getvar on a WRF dataset, whose y dimension is backwards
WrfYWindow(y_index_start, y_index_end, y_size) ==
    LET s1 == IF y_index_end < 0 THEN -y_index_end - 1
              ELSE y_size - y_index_end - 1
        e1 == IF y_index_start < 0 THEN -s1
              ELSE y_size - y_index_start - 1
    IN  <<s1, e1>>

\* the reductions of an xarray DataArray that the model calls by name
Methods == {"sum", "max"}

RECURSIVE MaxSeq(_)
MaxSeq(s) ==
    IF Len(s) = 1 THEN s[1]
    ELSE IF s[1] > MaxSeq(Tail(s)) THEN s[1] ELSE MaxSeq(Tail(s))

\* getattr(data, calc_4d_method)(dim=calc_4d_dim) of a (time, level, y, x)
\* array, for the level dimension
ReduceLevels(data, method, ny, nx) ==
    [t \in 1..Len(data) |-> [y \in 1..ny |-> [x \in 1..nx |->
        LET column == [l \in 1..Len(data[t]) |-> data[t][l][y][x]]
        IN  IF method = "sum" THEN SumSeq(column) ELSE MaxSeq(column)]]]

\* the check of the two reduction arguments of getvar on a 4-D variable;
\* building the message of the ValueError evaluates the undefined name data_var
MissingReduction(calc_4d_method, calc_4d_dim) ==
    IF IsNone(calc_4d_method) \/ IsNone(calc_4d_dim)
    THEN Some(Exc("NameError", "data_var"))
    ELSE <<>>

\* getvar(variable, x_index_start, x_index_end, y_index_start, y_index_end,
\* calc_4d_method, calc_4d_dim); the last two are None or a name
getvar(ds, variable, x_index_start, x_index_end, y_index_start, y_index_end, calc_4d_method, calc_4d_dim) ==
    LET wrf == "MAP_PROJ" \in DOMAIN ds.attrs
        yw == IF wrf THEN WrfYWindow(y_index_start, y_index_end, ds.dims[y_dim])
              ELSE <<y_index_start, y_index_end>>
        xsel == SliceIndices(x_index_start, x_index_end, ds.dims[x_dim])
        ysel == SliceIndices(yw[1], yw[2], ds.dims[y_dim])
        data == _getvar(ds, variable, xsel, ysel)
        reduced == IF Len(ds.vars[variable].dims) = 4
                   THEN ReduceLevels(data, calc_4d_method[1], Len(ysel), Len(xsel))
                   ELSE data
        done == [err |-> <<>>,
                 val |-> Some([values |-> IF wrf
                                          THEN [t \in 1..Len(reduced) |-> ReverseRows(reduced[t])]
                                          ELSE reduced,
                               time |-> ds.vars[time_var].values])]
    IN  IF variable \notin DOMAIN ds.vars
        THEN [err |-> Some(Exc("KeyError", variable)), val |-> <<>>]
        ELSE IF Len(ds.vars[variable].dims) # 4 THEN done
        ELSE IF ~IsNone(MissingReduction(calc_4d_method, calc_4d_dim))
        THEN [err |-> MissingReduction(calc_4d_method, calc_4d_dim), val |-> <<>>]
        ELSE IF calc_4d_method[1] \notin Methods
        THEN [err |-> Some(Exc("AttributeError", calc_4d_method[1])), val |-> <<>>]
        ELSE IF calc_4d_dim[1] \notin Range(ds.vars[variable].dims)
        THEN [err |-> Some(Exc("ValueError", calc_4d_dim[1])), val |-> <<>>]
        ELSE done

(***************************************************************************)
(* PART 2 - LSMGridReader: the operations on one handle                    *)
(***************************************************************************)
NoRead == [projection |-> <<>>, epsg |-> <<>>, geotransform |-> <<>>, affine |-> <<>>]

NoRet == [op |-> "", args |-> <<>>, val |-> <<>>, err |-> <<>>, note |-> ""]

InitGrid ==
    /\ obj = <<>>
    /\ handle = NewHandle
    /\ ret = NoRet
    /\ first_read = NoRead
    /\ nchanges = 0
    /\ before = <<>>
    /\ exported_by = ""

IsOpen == obj # <<>>

\* the outcome r of the operation op
Outcome(op, args, r) ==
    [op |-> op, args |-> args, val |-> r.val, err |-> r.err, note |-> r.note]

\* the first successful read of the property op is remembered
Remember(op, r) ==
    IF ~Failed(r) /\ IsNone(first_read[op])
    THEN [first_read EXCEPT ![op] = r.val]
    ELSE first_read

\* ds.lsm on a dataset: the accessor is constructed
OpenWith(ds) ==
    /\ obj = <<>>
    /\ obj' = ds
    /\ handle' = NewHandle
    /\ ret' = NoRet
    /\ first_read' = NoRead
    /\ nchanges' = 0
    /\ before' = ds
    /\ exported_by' = ""
    /\ UNCHANGED <<fvars, hvars, kvars>>

OpenMeta == \E ds \in MetaDatasets : OpenWith(ds)

OpenBands == \E ds \in BandDatasets : OpenWith(ds)

\* a read of one of the memoized properties
ReadProperty(op, r) ==
    /\ IsOpen
    /\ handle' = r.h
    /\ ret' = Outcome(op, <<>>, r)
    /\ first_read' = Remember(op, r)
    /\ before' = obj
    /\ UNCHANGED <<obj, nchanges, exported_by, fvars, hvars, kvars>>

ReadProjection == ReadProperty("projection", projection(handle, obj))

ReadEpsg == ReadProperty("epsg", epsg(handle, obj))

ReadGeotransform == ReadProperty("geotransform", geotransform(handle, obj, 0))

ReadAffine == ReadProperty("affine", affine(handle, obj, 0))

\* a read or call that memoizes at most, and is not remembered
CallMethod(op, args, r, h) ==
    /\ IsOpen
    /\ handle' = h
    /\ ret' = Outcome(op, args, r)
    /\ before' = obj
    /\ UNCHANGED <<obj, first_read, nchanges, exported_by, fvars, hvars, kvars>>

ReadLatlon == CallMethod("latlon", <<>>, latlon(obj), handle)

ReadCenter == CallMethod("center", <<>>, center(handle, obj), center(handle, obj).h)

Coords ==
    \E as_2d \in BOOLEAN :
        CallMethod("coords", <<as_2d>>, coords(handle, obj, as_2d, 0),
                   coords(handle, obj, as_2d, 0).h)

\* the windows getvar is called with: the default, and every pair of bounds
\* around the axis
DefaultWindow == <<0, -1>>

Windows == {<<s, e>> : s \in (-MaxSize)..MaxSize, e \in (-MaxSize)..MaxSize}

GetvarWith(xw, yw) ==
    CallMethod("getvar", <<xw, yw>>,
               [val |-> getvar(obj, data_var, xw[1], xw[2], yw[1], yw[2], <<>>, <<>>).val,
                err |-> getvar(obj, data_var, xw[1], xw[2], yw[1], yw[2], <<>>, <<>>).err,
                note |-> ""],
               handle)

GetvarDefault == GetvarWith(DefaultWindow, DefaultWindow)

GetvarWindowY == \E yw \in Windows : GetvarWith(DefaultWindow, yw)

OpenLevels == \E ds \in LevelDatasets : OpenWith(ds)

\* the values getvar is given for calc_4d_method and calc_4d_dim
MethodChoices == {<<>>, Some("sum"), Some("max"), Some("median")}

DimChoices == {<<>>, Some(level_dim), Some("west_east")}

\* getvar of the 4-D variable, with and without the reduction arguments
GetvarLevels ==
    \E yw \in {DefaultWindow, <<0, MaxSize>>}, cm \in MethodChoices, cd \in DimChoices :
        CallMethod("getvar", <<DefaultWindow, yw, cm, cd>>,
                   [val |-> getvar(obj, level_var, 0, -1, yw[1], yw[2], cm, cd).val,
                    err |-> getvar(obj, level_var, 0, -1, yw[1], yw[2], cm, cd).err,
                    note |-> level_var],
                   handle)

\* a method that returns a new dataset and may convert the time of obj
BandMethod(op, r) ==
    /\ IsOpen
    /\ obj' = r.ds
    /\ handle' = r.h
    /\ ret' = [op |-> op, args |-> <<>>, val |-> r.val, err |-> r.err, note |-> ""]
    /\ before' = obj
    /\ UNCHANGED <<first_read, nchanges, exported_by, fvars, hvars, kvars>>

Resample == BandMethod("resample", resample(handle, obj, data_var, MATCH_GRID))

ToUtm == BandMethod("to_utm", to_utm(handle, obj, data_var))

\* ds.lsm on the dataset that resample or to_utm returned
OpenOutput ==
    /\ IsOpen
    /\ exported_by = ""
    /\ ret.op \in {"resample", "to_utm"}
    /\ ~Failed(ret)
    /\ obj' = ret.val[1]
    /\ handle' = NewHandle
    /\ ret' = NoRet
    /\ first_read' = NoRead
    /\ nchanges' = 0
    /\ before' = ret.val[1]
    /\ exported_by' = ret.op
    /\ UNCHANGED <<fvars, hvars, kvars>>

ToTif ==
    \E time_index \in 0..(MaxTime - 1) :
        BandMethod("to_tif", to_tif(handle, obj, data_var, time_index))

\* to_datetime(), and the property datetime that calls it
ToDatetime ==
    BandMethod("to_datetime",
               [ds |-> to_datetime(obj).ds, h |-> handle,
                val |-> IF Failed(to_datetime(obj)) THEN <<>>
                        ELSE Some(to_datetime(obj).ds.vars[time_var].values),
                err |-> to_datetime(obj).err])

\* the caller edits the global attributes of the open dataset
AttrEdits ==
    {[key |-> "proj4", val |-> <<>>], [key |-> "proj4", val |-> Some(P4_LCC)],
     [key |-> "proj4", val |-> Some(P4_INIT_4326)],
     [key |-> "geotransform", val |-> <<>>],
     [key |-> "geotransform", val |-> Some(GT_OTHER)]}

EditAttrs(attrs, e) ==
    LET keys == IF IsNone(e.val) THEN DOMAIN attrs \ {e.key}
                ELSE DOMAIN attrs \cup {e.key}
    IN  [k \in keys |-> IF k = e.key THEN e.val[1] ELSE attrs[k]]

ChangeAttrs ==
    \E e \in AttrEdits :
        /\ IsOpen
        /\ nchanges < MaxAttrChanges
        /\ EditAttrs(obj.attrs, e) # obj.attrs
        /\ obj' = [obj EXCEPT !.attrs = EditAttrs(obj.attrs, e)]
        /\ nchanges' = nchanges + 1
        /\ ret' = [NoRet EXCEPT !.op = "change_attrs"]
        /\ before' = obj
        /\ UNCHANGED <<handle, first_read, exported_by, fvars, hvars, kvars>>

OpenPixels == \E ds \in PixelDatasets : OpenWith(ds)

\* pixel2coord of a pixel of the grid
Pixel2coord ==
    \E col \in 0..(MaxSize - 1), row \in 0..(MaxSize - 1) :
        /\ IsOpen
        /\ col < obj.dims[x_dim]
        /\ row < obj.dims[y_dim]
        /\ CallMethod("pixel2coord", <<col, row>>, pixel2coord(handle, obj, col, row, 0),
                      pixel2coord(handle, obj, col, row, 0).h)

ReadDx == CallMethod("dx", <<>>, dx(handle, obj), dx(handle, obj).h)

ReadDy == CallMethod("dy", <<>>, dy(handle, obj), dy(handle, obj).h)

(***************************************************************************)
(* PART 3 - HmetFile (gsshapy/orm/hmet.py): the meteorological series file *)
(*                                                                         *)
(* A Python value is a record [type, fmt, v].  A number has type "int" or  *)
(* "float"; v is the integer, or the float in thousandths.  A string has   *)
(* type "str", and fmt says how to read v: "d" the decimal digits of the   *)
(* integer v, "repr" the repr of the float v, "f2" and "g3" the float v    *)
(* printed by %.2f and %.3g, "word" a text that is no number, and the      *)
(* strings of one whitespace character.  A text is a sequence of strings.  *)
(***************************************************************************)
PyInt(n) == [type |-> "int", fmt |-> "", v |-> n]

PyFloat(t) == [type |-> "float", fmt |-> "", v |-> t]

PyStr(fmt, v) == [type |-> "str", fmt |-> fmt, v |-> v]

TAB == PyStr("\t", 0)

NEWLINE == PyStr("\n", 0)

IsSpace(tok) == tok.fmt \in {"\t", "\n", " "}

\* the value of a number in thousandths
Thousandths(x) == IF x.type = "int" THEN 1000 * x.v ELSE x.v

\* t >= 0 rounded to the nearest multiple of unit
RoundTo(t, unit) == ((t + unit \div 2) \div unit) * unit

\* the power of ten that leaves t three significant digits
RECURSIVE UnitOf3Digits(_, _)
UnitOf3Digits(t, unit) ==
    IF t < 1000 * unit THEN unit ELSE UnitOf3Digits(t, 10 * unit)

\* '%s' % x
FormatS(x) ==
    IF x.type = "str" THEN x
    ELSE IF x.type = "int" THEN PyStr("d", x.v)
    ELSE PyStr("repr", x.v)

\* '%.3g' % x of a number: three significant digits
FormatG3(x) == PyStr("g3", RoundTo(Thousandths(x), UnitOf3Digits(Thousandths(x), 1)))

\* '%.2f' % x of a number: two decimals
FormatF2(x) == PyStr("f2", RoundTo(Thousandths(x), 10))

\* the fields of a record in the order of the format string
Fields(record) ==
    <<PyInt(record.hmetDateTime.year), PyInt(record.hmetDateTime.month),
      PyInt(record.hmetDateTime.day), PyInt(record.hmetDateTime.hour),
      record.barometricPress, record.relHumidity, record.totalSkyCover,
      record.windSpeed, record.dryBulbTemp, record.directRad,
      record.globalRad>>

\* the conversions of '%s\t%s\t%s\t%s\t%.3g\t%s\t%s\t%s\t%s\t%.2f\t%.2f\n'
Conversions == <<"s", "s", "s", "s", "g3", "s", "s", "s", "s", "f2", "f2">>

\* a float conversion of a string raises TypeError
FormatFails(record) ==
    \E j \in 1..Len(Conversions) :
        Conversions[j] # "s" /\ Fields(record)[j].type = "str"

\* the line of one record: 11 fields, 10 tabs, a newline
FormatLine(record) ==
    [k \in 1..(2 * Len(Conversions)) |->
        IF k = 2 * Len(Conversions) THEN NEWLINE
        ELSE IF k % 2 = 0 THEN TAB
        ELSE LET j == (k + 1) \div 2
             IN  IF Conversions[j] = "s" THEN FormatS(Fields(record)[j])
                 ELSE IF Conversions[j] = "g3" THEN FormatG3(Fields(record)[j])
                 ELSE FormatF2(Fields(record)[j])]

\* _writeToOpenFile: one write per record, until a format raises
RECURSIVE _writeToOpenFile(_, _)
_writeToOpenFile(records, text) ==
    IF records = <<>> THEN [text |-> text, err |-> <<>>]
    ELSE IF FormatFails(records[1])
    THEN [text |-> text, err |-> Some(Exc("TypeError", "a float is required"))]
    ELSE _writeToOpenFile(Tail(records), text \o FormatLine(records[1]))

\* int(s) of a string: None unless s is the decimal digits of an integer
ParseInt(s) == IF s.fmt = "d" THEN Some(s.v) ELSE <<>>

\* datetime(year, month, day, hour) accepts the ranges of its arguments
DateInRange(year, month, day, hour) ==
    /\ year \in 1..9999
    /\ month \in 1..12
    /\ day \in 1..31
    /\ hour \in 0..23

\* the body of the loop of _readWithoutCommit on the fields sline of a line:
\* the record, or the exception that the first failing expression raises
ParseLine(sline) ==
    LET bad == {j \in 1..4 : j > Len(sline) \/ IsNone(ParseInt(sline[j]))}
        first == CHOOSE j \in bad : \A k \in bad : j <= k
    IN  IF bad # {}
        THEN IF first > Len(sline)
             THEN [err |-> Some(Exc("IndexError", "list index out of range")), val |-> <<>>]
             ELSE [err |-> Some(Exc("ValueError", "invalid literal for int()")), val |-> <<>>]
        ELSE IF ~DateInRange(sline[1].v, sline[2].v, sline[3].v, sline[4].v)
        THEN [err |-> Some(Exc("ValueError", "date out of range")), val |-> <<>>]
        ELSE IF Len(sline) < 11
        THEN [err |-> Some(Exc("IndexError", "list index out of range")), val |-> <<>>]
        ELSE [err |-> <<>>,
              val |-> Some(
                [hmetDateTime |-> [year |-> sline[1].v, month |-> sline[2].v,
                                   day |-> sline[3].v, hour |-> sline[4].v],
                 barometricPress |-> sline[5], relHumidity |-> sline[6],
                 totalSkyCover |-> sline[7], windSpeed |-> sline[8],
                 dryBulbTemp |-> sline[9], directRad |-> sline[10],
                 globalRad |-> sline[11]])]

\* the end of the first line of a text: its newline, or the end of the text
RECURSIVE LineEnd(_, _)
LineEnd(text, i) ==
    IF i >= Len(text) \/ text[i] = NEWLINE THEN i ELSE LineEnd(text, i + 1)

\* hmetRecord.hmetFile = self puts each record into self.hmetRecords as soon
\* as its line is parsed: the records of the lines before a failing line stay
ReadKeeps(records, err) == records

\* _readWithoutCommit on the text of the file, from records already held
RECURSIVE _readWithoutCommit(_, _)
_readWithoutCommit(text, records) ==
    IF text = <<>> THEN [records |-> records, err |-> <<>>]
    ELSE LET e == LineEnd(text, 1)
             sline == SelectSeq(SubSeq(text, 1, e), LAMBDA tok : ~IsSpace(tok))
             rest == SubSeq(text, e + 1, Len(text))
         IN  IF Failed(ParseLine(sline))
             THEN [records |-> ReadKeeps(records, ParseLine(sline).err),
                   err |-> ParseLine(sline).err]
             ELSE _readWithoutCommit(rest, Append(records, ParseLine(sline).val[1]))

(***************************************************************************)
(* The records and the files of the model.                                 *)
(***************************************************************************)
HmetRecord(year, month, day, hour, press, hum, sky, wind, temp, direct, global) ==
    [hmetDateTime |-> [year |-> year, month |-> month, day |-> day, hour |-> hour],
     barometricPress |-> press, relHumidity |-> hum, totalSkyCover |-> sky,
     windSpeed |-> wind, dryBulbTemp |-> temp, directRad |-> direct,
     globalRad |-> global]

\* (2015, 6, 1, 0, 1013.2, 55, 4, 3, 22, 150.25, 300.10) and three more
SampleRecords ==
    {HmetRecord(2015, 6, 1, 0, PyFloat(1013200), PyInt(55), PyInt(4), PyInt(3), PyInt(22),
                PyFloat(150250), PyFloat(300100)),
     HmetRecord(2015, 6, 1, 1, PyFloat(998760), PyInt(60), PyInt(0), PyInt(5), PyInt(21),
                PyFloat(0), PyFloat(12346)),
     HmetRecord(2015, 12, 31, 23, PyInt(1000), PyInt(100), PyInt(10), PyFloat(2500), PyInt(0),
                PyInt(7), PyFloat(999999)),
     HmetRecord(2016, 1, 1, 12, PyFloat(950), PyInt(7), PyInt(1), PyInt(0), PyInt(15),
                PyFloat(4), PyFloat(5))}

RECURSIVE SeqsUpTo(_, _)
SeqsUpTo(S, n) ==
    IF n = 0 THEN {<<>>}
    ELSE SeqsUpTo(S, n - 1)
         \cup {Append(s, x) : s \in {q \in SeqsUpTo(S, n - 1) : Len(q) = n - 1}, x \in S}

RecordSeqs == SeqsUpTo(SampleRecords, MaxRecords)

\* the lines of a file to read: well-formed, with 10 fields, blank, with the
\* year written 2015.0, and with 12 fields
LineKinds == {"good", "short", "blank", "baddate", "long"}

GoodLine == FormatLine(CHOOSE r \in SampleRecords : r.hmetDateTime.hour = 0)

LineOf(kind) ==
    IF kind = "good" THEN GoodLine
    ELSE IF kind = "short" THEN SubSeq(GoodLine, 1, 19) \o <<NEWLINE>>
    ELSE IF kind = "blank" THEN <<NEWLINE>>
    ELSE IF kind = "baddate" THEN <<PyStr("repr", 2015000)>> \o Tail(GoodLine)
    ELSE SubSeq(GoodLine, 1, 21) \o <<TAB, PyStr("d", 0), NEWLINE>>

RECURSIVE Concat(_)
Concat(lines) == IF lines = <<>> THEN <<>> ELSE lines[1] \o Concat(Tail(lines))

Texts == {Concat([i \in 1..Len(ks) |-> LineOf(ks[i])]) : ks \in SeqsUpTo(LineKinds, MaxRecords)}

(***************************************************************************)
(* The operations on one file object.                                      *)
(***************************************************************************)
InitHmet ==
    /\ hmetRecords = <<>>
    /\ openFile = <<>>
    /\ hret = [op |-> "", err |-> <<>>]
    /\ hsource = <<>>

\* the caller gives a new file object its records
HmetCreate ==
    \E records \in RecordSeqs :
        /\ hret.op = ""
        /\ hmetRecords' = records
        /\ hret' = [op |-> "create", err |-> <<>>]
        /\ UNCHANGED <<openFile, hsource, fvars, gvars, kvars>>

\* _writeToOpenFile(session, openFile) on a file opened for writing
HmetWrite ==
    /\ hret.op \in {"create", "read", "readback"}
    /\ openFile' = _writeToOpenFile(hmetRecords, <<>>).text
    /\ hret' = [op |-> "write", err |-> _writeToOpenFile(hmetRecords, <<>>).err]
    /\ hsource' = hmetRecords
    /\ UNCHANGED <<hmetRecords, fvars, gvars, kvars>>

\* a new file object reads the text that was written
HmetReadBack ==
    /\ hret.op = "write"
    /\ ~Failed(hret)
    /\ hmetRecords' = _readWithoutCommit(openFile, <<>>).records
    /\ hret' = [op |-> "readback", err |-> _readWithoutCommit(openFile, <<>>).err]
    /\ UNCHANGED <<openFile, hsource, fvars, gvars, kvars>>

\* a new file object reads a file of the directory
HmetReadFile ==
    \E text \in Texts :
        /\ hret.op = ""
        /\ openFile' = text
        /\ hmetRecords' = _readWithoutCommit(text, <<>>).records
        /\ hret' = [op |-> "read", err |-> _readWithoutCommit(text, <<>>).err]
        /\ UNCHANGED <<hsource, fvars, gvars, kvars>>

(***************************************************************************)
(* PART 4 - GSSHAFramework (gsshapy/modeling/framework.py)                 *)
(*                                                                         *)
(* A string that is a file name is the sequence of its pieces, a path the  *)
(* sequence of its file names; a card value is [quotes, path], where       *)
(* `quotes` says whether the text is wrapped in double quotes.             *)
(***************************************************************************)
LsmVars ==
    {"lsm_folder", "lsm_precip_data_var", "lsm_precip_type", "lsm_lat_var",
     "lsm_lon_var", "lsm_file_date_naming_convention", "lsm_time_var",
     "lsm_search_card"}

SptVars ==
    {"spt_watershed_name", "spt_subbasin_name", "spt_forecast_date_string",
     "ckan_engine_url", "ckan_api_key", "ckan_owner_organization"}

RapidVars == {"path_to_rapid_qout", "connection_list_file"}

AttrNames == LsmVars \cup SptVars \cup RapidVars

\* the defaults of __init__: every optional argument is None but
\* lsm_time_var='time' and lsm_search_card="*.nc"
DefaultArgs ==
    [n \in AttrNames |->
        IF n = "lsm_time_var" THEN Some(<<"time">>)
        ELSE IF n = "lsm_search_card" THEN Some(<<"*.nc">>)
        ELSE <<>>]

DefaultFlags ==
    [output_netcdf |-> FALSE, write_hotstart |-> FALSE, read_hotstart |-> FALSE,
     hotstart_minimal_mode |-> FALSE]

\* the value a caller gives for the argument n
GivenValue(n) == Some(<<"given", n>>)

\* `if x:` on None or a string: None and the empty string are false
Truthy(o) == ~IsNone(o) /\ o[1] # <<>>

\* _connect_to_lsm: None not in lsm_required_vars
_connect_to_lsm(attrs) == \A n \in LsmVars : ~IsNone(attrs[n])

\* _update_class_var(var_name, new_value)
_update_class_var(attrs, var_name, new_value) ==
    IF Truthy(new_value) THEN [attrs EXCEPT ![var_name] = new_value] ELSE attrs

(***************************************************************************)
(* The project file: ProjectFile.getCard, setCard and deleteCard           *)
(***************************************************************************)
Quoted(path) == [quotes |-> TRUE, path |-> path]

Bare(path) == [quotes |-> FALSE, path |-> path]

getCard(cards, name) == AttrGet(cards, name)

\* setCard(name, value, add_quotes): the card is added or its value replaced
setCard(cards, name, path, add_quotes) ==
    [n \in DOMAIN cards \cup {name} |->
        IF n = name THEN [quotes |-> add_quotes, path |-> path] ELSE cards[n]]

\* deleteCard(name, session): the card is removed when the file has it
deleteCard(cards, name) == [n \in DOMAIN cards \ {name} |-> cards[n]]

\* deleteCard for every name of a tuple of names
DeleteCards(cards, names) == [n \in DOMAIN cards \ Range(names) |-> cards[n]]

\* os.path.basename(path) and os.path.join("..", name)
Basename(path) == IF path = <<>> THEN <<>> ELSE <<path[Len(path)]>>

\* '{0}.ext'.format(path): the extension is added to the last file name
WithExt(path, ext) ==
    [i \in 1..Len(path) |-> IF i = Len(path) THEN Append(path[i], ext) ELSE path[i]]

project_name == "grid_standard"

\* event_manager.simulation_start / simulation_end .strftime("%Y%m%d_%H%M")
simulation_start == "20160914_0000"

simulation_end == "20160915_0000"

(***************************************************************************)
(* download_spt_forecast(extract_directory): [val, err, downloaded]        *)
(***************************************************************************)
QoutFile(attrs) ==
    <<<<"rapid_streamflow">>, attrs["spt_forecast_date_string"][1], <<"Qout_52.nc">>>>

\* a download that is skipped as soon as one of the settings is None
SkipsDownloadAnyNone(count_none) == count_none > 0

\* needed_vars.count(None) == len(needed_vars)
SkipsDownload(count_none) == count_none = Cardinality(SptVars)

\* `has_qout` says whether the download leaves a file Qout*52.nc in the
\* directory of the forecast date: glob(...)[0] of an empty list raises
download_spt_forecast(attrs, has_qout) ==
    LET needed_vars == {attrs[n] : n \in SptVars}
        count_none == Cardinality({n \in SptVars : IsNone(attrs[n])})
    IN  IF <<>> \notin needed_vars
        THEN IF has_qout
             THEN [val |-> Some(QoutFile(attrs)), err |-> <<>>, downloaded |-> TRUE]
             ELSE [val |-> <<>>, err |-> Some(Exc("IndexError", "list index out of range")),
                   downloaded |-> TRUE]
        ELSE IF SkipsDownload(count_none)
        THEN [val |-> <<>>, err |-> <<>>, downloaded |-> FALSE]
        ELSE [val |-> <<>>, err |-> Some(Exc("ValueError", "To download the forecasts, you need to set")),
              downloaded |-> FALSE]

(***************************************************************************)
(* run()                                                                   *)
(***************************************************************************)
GSSHA_REQUIRED_OUTPUT_PATH_CARDS ==
    <<"SUMMARY", "OUTLET_HYDRO", "OUTLET_SED_FLUX", "OUTLET_SED_TSS",
      "SUPERLINK_JUNC_FLOW", "SUPERLINK_NODE_FLOW">>

GSSHA_OPTIONAL_OUTPUT_PATH_CARDS ==
    <<"OUT_THETA_LOCATION", "OUT_HYD_LOCATION", "OUT_DEP_LOCATION", "OUT_SED_LOC",
      "OUT_TSS_LOC", "MAX_SED_FLUX", "CHAN_DEPTH", "CHAN_STAGE", "CHAN_DISCHARGE",
      "CHAN_VELOCITY", "LAKE_OUTPUT", "GW_OUTPUT", "OUT_GWFLUX_LOCATION",
      "GW_RECHARGE_CUM", "GW_RECHARGE_INC", "GW_WELL_LEVEL", "OUT_CON_LOCATION",
      "OUT_MASS_LOCATION", "NET_SED_VOLUME", "VOL_SED_SUSP", "OVERLAND_DEPTHS",
      "OVERLAND_WSE", "DISCHARGE", "DEPTH", "INF_DEPTH", "SURF_MOIST",
      "RATE_OF_INFIL", "DIS_RAIN", "FLOOD_GRID", "FLOOD_STREAM">>

GSSHA_OPTIONAL_OUTPUT_CARDS ==
    <<"IN_THETA_LOCATION", "IN_HYD_LOCATION", "IN_SED_LOC",
      "OVERLAND_DEPTH_LOCATION", "OVERLAND_WSE_LOCATION", "IN_GWFLUX_LOCATION",
      "OUT_WELL_LOCATION", "STRICT_JULIAN_DATE", "OPTIMIZE", "OPTIMIZE_SED">>
    \o GSSHA_OPTIONAL_OUTPUT_PATH_CARDS

SIMULATION_RUN_MODIFIED_INPUT_CARDS ==
    <<"HMET_ASCII", "HMET_NETCDF", "CHAN_POINT_INPUT", "PRECIP_FILE", "MAPPING_TABLE">>

\* `if file_card.value:` on the text of a card
ValueTruthy(v) == v.quotes \/ v.path # <<>>

\* "minimal_hotstart_run_{0}to{1}" or "run_{0}to{1}"
working_directory(fl) ==
    << <<IF fl.hotstart_minimal_mode THEN "minimal_hotstart_run_" ELSE "run_",
         simulation_start, "to", simulation_end>> >>

\* the cards of a minimal mode that deletes the optional output path cards only
MinimalModePathCards(cards) ==
    setCard(DeleteCards(cards, GSSHA_OPTIONAL_OUTPUT_PATH_CARDS), "SUPER_QUIET", <<>>, FALSE)

\* the cards of hotstart_minimal_mode: the optional output cards are deleted
\* and SUPER_QUIET is set
MinimalModeCards(cards) ==
    setCard(DeleteCards(cards, GSSHA_OPTIONAL_OUTPUT_CARDS), "SUPER_QUIET", <<>>, FALSE)

\* _update_card_file_location(card_name, new_directory) on [cards, files]
_update_card_file_location(st, card_name, new_directory) ==
    IF card_name \in DOMAIN st.cards /\ ValueTruthy(st.cards[card_name])
    THEN LET original_location == st.cards[card_name].path
             new_location == new_directory \o Basename(original_location)
         IN  [cards |-> [st.cards EXCEPT ![card_name] = Quoted(Basename(original_location))],
              files |-> IF original_location \in st.files
                        THEN (st.files \ {original_location}) \cup {new_location}
                        ELSE st.files]
    ELSE st

\* the loop that connects the other files to the main gssha directory
ConnectedValue(name, v, fs) ==
    IF name \in Range(GSSHA_REQUIRED_OUTPUT_PATH_CARDS)
                    \cup Range(GSSHA_OPTIONAL_OUTPUT_PATH_CARDS)
                    \cup Range(SIMULATION_RUN_MODIFIED_INPUT_CARDS)
       \/ ~ValueTruthy(v) \/ v.path = <<>>
    THEN v
    ELSE IF v.path \in fs THEN Quoted(<< <<"..">> >> \o Basename(v.path))
    ELSE IF name = "#INDEXGRID_GUID" /\ Basename(v.path) \in fs
    THEN Quoted(<< <<"..">> >> \o Basename(v.path))
    ELSE v

\* run(): [cards, files] when the project file is written
run(cards, fs, fl) ==
    LET c0 == IF fl.hotstart_minimal_mode THEN MinimalModeCards(cards) ELSE cards
        wd == working_directory(fl)
        s0 == [cards |-> c0, files |-> fs \cup {wd}]
        s1 == _update_card_file_location(s0, "PRECIP_FILE", wd)
        s2 == _update_card_file_location(s1, "CHAN_POINT_INPUT", wd)
        s3 == _update_card_file_location(s2, "HMET_NETCDF", wd)
        s4 == _update_card_file_location(s3, "HMET_ASCII", wd)
        f5 == IF "MAPPING_TABLE" \in DOMAIN s4.cards
              THEN s4.files \cup {wd \o Basename(s4.cards["MAPPING_TABLE"].path)}
              ELSE s4.files
        c5 == [n \in DOMAIN s4.cards |-> ConnectedValue(n, s4.cards[n], f5)]
    IN  [cards |-> setCard(c5, "PROJECT_PATH", <<>>, TRUE), files |-> f5]

(***************************************************************************)
(* run_forecast()                                                          *)
(***************************************************************************)
HotstartDir == << <<"hotstart">> >>

Up(path) == << <<"..">> >> \o path

ov_hotstart(time_str) == HotstartDir \o << <<project_name, "_ov_hotstart_", time_str, ".ovh">> >>

chan_hotstart(time_str) == HotstartDir \o << <<project_name, "_chan_hotstart_", time_str>> >>

sm_hotstart(time_str) == HotstartDir \o << <<project_name, "_sm_hotstart_", time_str, ".smh">> >>

\* the WRITE hotstart cards with the overland card only
WriteOvHotstartCard(cards, fl) ==
    IF fl.write_hotstart
    THEN setCard(cards, "WRITE_OV_HOTSTART", Up(ov_hotstart(simulation_end)), TRUE)
    ELSE deleteCard(cards, "WRITE_OV_HOTSTART")

\* the WRITE hotstart cards
WriteHotstartCards(cards, fl) ==
    IF fl.write_hotstart
    THEN setCard(setCard(setCard(cards,
             "WRITE_OV_HOTSTART", Up(ov_hotstart(simulation_end)), TRUE),
             "WRITE_CHAN_HOTSTART", Up(chan_hotstart(simulation_end)), TRUE),
             "WRITE_SM_HOTSTART", Up(sm_hotstart(simulation_end)), TRUE)
    ELSE DeleteCards(cards, <<"WRITE_OV_HOTSTART", "WRITE_CHAN_HOTSTART", "WRITE_SM_HOTSTART">>)

\* one READ hotstart card: set when its file exists, deleted otherwise
ReadCard(cards, name, expected, exists) ==
    IF exists THEN setCard(cards, name, Up(expected), TRUE) ELSE deleteCard(cards, name)

\* the channel hotstart needs both of its files
ChanExistsEither(fs) ==
    \/ WithExt(chan_hotstart(simulation_start), ".qht") \in fs
    \/ WithExt(chan_hotstart(simulation_start), ".dht") \in fs

ChanExists(fs) ==
    /\ WithExt(chan_hotstart(simulation_start), ".qht") \in fs
    /\ WithExt(chan_hotstart(simulation_start), ".dht") \in fs

\* the READ hotstart cards
ReadHotstartCards(cards, fs, fl) ==
    IF fl.read_hotstart
    THEN ReadCard(ReadCard(ReadCard(cards,
             "READ_OV_HOTSTART", ov_hotstart(simulation_start),
                 ov_hotstart(simulation_start) \in fs),
             "READ_CHAN_HOTSTART", chan_hotstart(simulation_start), ChanExists(fs)),
             "READ_SM_HOTSTART", sm_hotstart(simulation_start),
                 sm_hotstart(simulation_start) \in fs)
    ELSE cards

CallOn(fn, manager) == [fn |-> fn, on |-> manager]

\* a download attempted whenever no Qout path is set
AttemptsDownloadWithoutList(attrs) == IsNone(attrs["path_to_rapid_qout"])

\* self.path_to_rapid_qout is None and self.connection_list_file
AttemptsDownload(attrs) ==
    IsNone(attrs["path_to_rapid_qout"]) /\ Truthy(attrs["connection_list_file"])

\* self.path_to_rapid_qout is not None and self.connection_list_file
PreparesStreamflow(attrs) ==
    ~IsNone(attrs["path_to_rapid_qout"]) /\ Truthy(attrs["connection_list_file"])

\* the steps of run_forecast after the LSM step: RAPID, hotstart, run.
\* `st` is [attrs, calls]
AfterLsm(st, cards, fs, fl, manager, has_qout) ==
    LET attempt == AttemptsDownload(st.attrs)
        d == download_spt_forecast(st.attrs, has_qout)
        calls1 == IF attempt
                  THEN Append(st.calls, CallOn("download_spt_forecast", "self"))
                       \o (IF d.downloaded
                           THEN <<CallOn("download_prediction_dataset", "er_manager")>>
                           ELSE <<>>)
                  ELSE st.calls
        attrs1 == IF attempt /\ IsNone(d.err)
                  THEN [st.attrs EXCEPT !["path_to_rapid_qout"] = d.val]
                  ELSE st.attrs
        prepare == PreparesStreamflow(attrs1)
        calls2 == IF prepare
                  THEN Append(calls1, CallOn("prepare_rapid_streamflow", manager))
                  ELSE calls1
        fs1 == IF attempt THEN fs \cup {<< <<"rapid_streamflow">> >>} ELSE fs
        fs2 == IF fl.write_hotstart THEN fs1 \cup {HotstartDir} ELSE fs1
        c1 == WriteHotstartCards(cards, fl)
        c2 == ReadHotstartCards(c1, fs2, fl)
        out == run(c2, fs2, fl)
    IN  IF attempt /\ ~IsNone(d.err)
        THEN [attrs |-> st.attrs, cards |-> cards, files |-> fs1, calls |-> calls1,
              err |-> d.err, at_run |-> <<>>, written |-> <<>>]
        ELSE [attrs |-> attrs1, cards |-> out.cards, files |-> out.files,
              calls |-> Append(calls2, CallOn("run", "self")),
              err |-> <<>>, at_run |-> Some(c2), written |-> Some(out.cards)]

\* run_forecast(): the attributes, cards and files after the call, the calls
\* made, the exception raised, the cards when run() was entered and the
\* project file written.  `has_wrf` says whether the class EventMode has a
\* method prepare_wrf_data, `has_qout` whether a download leaves a Qout file
run_forecast(attrs, cards, fs, fl, manager, has_wrf, has_qout) ==
    IF _connect_to_lsm(attrs)
    THEN IF manager = "LongTermMode" \/ has_wrf
         THEN AfterLsm([attrs |-> attrs,
                        calls |-> <<CallOn("prepare_wrf_data", manager)>>],
                       cards, fs, fl, manager, has_qout)
         ELSE [attrs |-> attrs, cards |-> cards, files |-> fs,
               calls |-> <<CallOn("prepare_wrf_data", manager)>>,
               err |-> Some(Exc("AttributeError", "prepare_wrf_data")),
               at_run |-> <<>>, written |-> <<>>]
    ELSE AfterLsm([attrs |-> attrs, calls |-> <<>>], cards, fs, fl, manager, has_qout)

(***************************************************************************)
(* Actions                                                                 *)
(***************************************************************************)
NoKret == [op |-> "", val |-> <<>>, err |-> <<>>, downloaded |-> FALSE]

InitFramework ==
    /\ self = DefaultArgs
    /\ flags = DefaultFlags
    /\ event_manager = ""
    /\ projectCards = <<>>
    /\ files = {}
    /\ kpc = "new"
    /\ calls = <<>>
    /\ kret = NoKret
    /\ nupdates = 0
    /\ attrs_at_call = <<>>
    /\ cards_at_call = <<>>
    /\ cards_at_run = <<>>
    /\ written_project = <<>>

\* GSSHAFramework(...) with the arguments args and fl, on a project file
\* with the cards `project`, in a directory with the files fs
Construct(args, fl, project, fs) ==
    /\ kpc = "new"
    /\ self' = args
    /\ flags' = fl
    /\ projectCards' = project
    /\ files' = fs
    /\ event_manager' = IF ~_connect_to_lsm(args) THEN "EventMode" ELSE "LongTermMode"
    /\ kpc' = "ready"
    /\ UNCHANGED <<calls, kret, nupdates, attrs_at_call, cards_at_call, cards_at_run, written_project,
                   fvars, gvars, hvars>>

\* _update_class_var(var_name, new_value) between construction and run
UpdateClassVar ==
    \E var_name \in AttrNames, new_value \in {<<>>, Some(<<>>), Some(<<"updated">>)} :
        /\ kpc = "ready"
        /\ nupdates < MaxUpdates
        /\ self' = _update_class_var(self, var_name, new_value)
        /\ nupdates' = nupdates + 1
        /\ kret' = [NoKret EXCEPT !.op = "_update_class_var"]
        /\ UNCHANGED <<flags, event_manager, projectCards, files, kpc, calls,
                       attrs_at_call, cards_at_call, cards_at_run, written_project, fvars, gvars, hvars>>

\* download_spt_forecast(extract_directory) called on the object
DownloadSptForecast ==
    \E has_qout \in BOOLEAN :
        LET d == download_spt_forecast(self, has_qout)
        IN  /\ kpc = "ready"
            /\ kret' = [op |-> "download_spt_forecast", val |-> d.val,
                        err |-> d.err, downloaded |-> d.downloaded]
            /\ files' = IF d.downloaded /\ has_qout
                        THEN files \cup {QoutFile(self)} ELSE files
    /\ UNCHANGED <<self, flags, event_manager, projectCards, kpc, calls, nupdates,
                   attrs_at_call, cards_at_call, cards_at_run, written_project, fvars, gvars, hvars>>

\* run_forecast()
RunForecast ==
    \E has_wrf \in BOOLEAN, has_qout \in BOOLEAN :
        LET out == run_forecast(self, projectCards, files, flags, event_manager,
                                has_wrf, has_qout)
        IN  /\ kpc = "ready"
            /\ self' = out.attrs
            /\ projectCards' = out.cards
            /\ files' = out.files
            /\ calls' = out.calls
            /\ kret' = [op |-> "run_forecast", val |-> <<>>, err |-> out.err,
                        downloaded |-> FALSE]
            /\ kpc' = IF IsNone(out.err) THEN "done" ELSE "raised"
            /\ attrs_at_call' = self
            /\ cards_at_call' = projectCards
            /\ cards_at_run' = out.at_run
            /\ written_project' = out.written
            /\ UNCHANGED <<flags, event_manager, nupdates, fvars, gvars, hvars>>

\* the arguments of a caller that gives the LSM arguments of `given` and
\* passes None for the others
LsmArgs(given) ==
    [n \in AttrNames |->
        IF n \in LsmVars THEN (IF n \in given THEN GivenValue(n) ELSE <<>>)
        ELSE DefaultArgs[n]]

\* a project file with an output card of each kind
BaseProject ==
    [n \in {"SUMMARY", "OUTLET_HYDRO", "DEPTH", "OPTIMIZE"} |->
        IF n = "OPTIMIZE" THEN Bare(<<>>) ELSE Quoted(<< <<project_name, ".", n>> >>)]

\* construction with every combination of LSM arguments
ConstructLsm ==
    \E given \in SUBSET LsmVars :
        Construct(LsmArgs(given), DefaultFlags, BaseProject, {})

\* the hotstart files of the simulation start time, and an older one
OldOvHotstart == HotstartDir \o << <<project_name, "_ov_hotstart_", "20160913_0000", ".ovh">> >>

HotstartFiles ==
    {ov_hotstart(simulation_start), sm_hotstart(simulation_start),
     WithExt(chan_hotstart(simulation_start), ".qht"),
     WithExt(chan_hotstart(simulation_start), ".dht"), OldOvHotstart}

\* hotstart cards that a project file may hold from an earlier run
EarlierCards ==
    [WRITE_OV_HOTSTART |-> Quoted(Up(OldOvHotstart)),
     READ_OV_HOTSTART |-> Quoted(OldOvHotstart),
     READ_CHAN_HOTSTART |-> Quoted(HotstartDir \o << <<"old_chan">> >>)]

\* the project file with the earlier cards of `names` added
WithCards(project, names) ==
    [n \in DOMAIN project \cup names |->
        IF n \in names THEN EarlierCards[n] ELSE project[n]]

FlagChoices ==
    {[output_netcdf |-> FALSE, write_hotstart |-> w, read_hotstart |-> r,
      hotstart_minimal_mode |-> m] : w \in BOOLEAN, r \in BOOLEAN, m \in BOOLEAN}

\* construction with every combination of the hotstart flags, on project
\* files with and without earlier hotstart cards, with any hotstart files
ConstructHotstart ==
    \E fl \in FlagChoices, names \in SUBSET DOMAIN EarlierCards,
       fs \in SUBSET HotstartFiles :
        Construct(DefaultArgs, fl, WithCards(BaseProject, names), fs)

\* the arguments of a caller that gives the streamflow arguments of `given`,
\* and the connection list file `conn`
RapidArgs(given, conn) ==
    [n \in AttrNames |->
        IF n = "connection_list_file" THEN conn
        ELSE IF n \in SptVars \cup RapidVars
        THEN (IF n \in given THEN GivenValue(n) ELSE <<>>)
        ELSE DefaultArgs[n]]

\* construction with every combination of the streamflow arguments; the
\* connection list file is None, the empty string or a file
ConstructRapid ==
    \E given \in SUBSET (SptVars \cup {"path_to_rapid_qout"}),
       conn \in {<<>>, Some(<<>>), GivenValue("connection_list_file")} :
        Construct(RapidArgs(given, conn), DefaultFlags, BaseProject, {})

(***************************************************************************)
(* Specifications                                                          *)
(***************************************************************************)
vars == <<fvars, gvars, hvars, kvars>>

Init == InitFetch /\ InitGrid /\ InitHmet /\ InitFramework

\* the fetcher on a file system and a connection that raise no error
NextFetch ==
    \/ Call
    \/ IterOk
    \/ IterFail
    \/ Return

SpecFetch == Init /\ [][NextFetch]_vars

\* the fetcher with the errors the file system and the connection can raise
NextFetchIO ==
    \/ Call
    \/ CallMkdirError
    \/ IterOk
    \/ IterFail
    \/ IterFailRemoveError
    \/ IterOpenError
    \/ IterStreamError
    \/ IterRequestError
    \/ Return

SpecFetchIO == Init /\ [][NextFetchIO]_vars

\* the memoized properties of a handle over a dataset with any projection
\* metadata, whose attributes the caller may edit
NextGrid ==
    \/ OpenMeta
    \/ ReadProjection
    \/ ReadEpsg
    \/ ReadGeotransform
    \/ ReadAffine
    \/ ReadLatlon
    \/ ReadCenter
    \/ Coords
    \/ ChangeAttrs

SpecGrid == Init /\ [][NextGrid]_vars

\* the methods of a handle over a dataset of any shape and time axis
NextBands ==
    \/ OpenBands
    \/ ReadProjection
    \/ ReadGeotransform
    \/ ReadLatlon
    \/ Coords
    \/ GetvarDefault
    \/ Resample
    \/ ToUtm
    \/ ToTif
    \/ ToDatetime

SpecBands == Init /\ [][NextBands]_vars

\* getvar with every window on a dataset of any shape
NextWindows ==
    \/ OpenBands
    \/ GetvarDefault
    \/ GetvarWindowY
    \/ ToDatetime

SpecWindows == Init /\ [][NextWindows]_vars

\* getvar on a dataset with a 4-D variable
NextLevels ==
    \/ OpenLevels
    \/ GetvarLevels
    \/ GetvarDefault
    \/ ToDatetime

SpecLevels == Init /\ [][NextLevels]_vars

\* series are written and read back, and files are read
NextHmet ==
    \/ HmetCreate
    \/ HmetWrite
    \/ HmetReadBack
    \/ HmetReadFile

SpecHmet == Init /\ [][NextHmet]_vars

\* pixel2coord and the cell sizes on a dataset with any stored geotransform
NextPixels ==
    \/ OpenPixels
    \/ ReadGeotransform
    \/ ReadAffine
    \/ Pixel2coord
    \/ ReadDx
    \/ ReadDy

SpecPixels == Init /\ [][NextPixels]_vars

\* the framework with any LSM arguments, updated and run
NextLsm ==
    \/ ConstructLsm
    \/ UpdateClassVar
    \/ RunForecast

SpecLsm == Init /\ [][NextLsm]_vars

\* the framework with any hotstart flags, project cards and hotstart files
NextHotstart ==
    \/ ConstructHotstart
    \/ RunForecast

SpecHotstart == Init /\ [][NextHotstart]_vars

\* the framework with any streamflow arguments
NextRapid ==
    \/ ConstructRapid
    \/ DownloadSptForecast
    \/ RunForecast

SpecRapid == Init /\ [][NextRapid]_vars

\* the datasets that resample and to_utm return, under a handle of their own
NextOutputs ==
    \/ OpenBands
    \/ Resample
    \/ ToUtm
    \/ OpenOutput
    \/ ReadProjection
    \/ ReadGeotransform
    \/ ReadLatlon

SpecOutputs == Init /\ [][NextOutputs]_vars

(***************************************************************************)
(* Properties of download_hrrr_for_gssha                                   *)
(***************************************************************************)
LastResponse == IF responses = <<>> THEN None ELSE responses[Len(responses)]

AllOk == \A i \in 1..Len(responses) : responses[i] = "ok"

\* every file the running call was asked for
AskedFiles == {out_file(HourFile(i)) : i \in 1..NumHours}

C2_AllOrNothingOnEveryExit ==
    fpc \in {"returned", "raised"} =>
        \/ written \cap disk = {}
        \/ written \cap disk = AskedFiles

\* C3: the requests of a call are a prefix of the ascending forecast hours,
\* none follows a non-success response, and when all succeed there is one
\* request per hour and the returned list holds one path per hour, in order.
C3_RequestsArePrefixOfHours ==
    /\ Len(requests) <= NumHours
    /\ Len(responses) = Len(requests)
    /\ \A i \in 1..Len(requests) : requests[i] = HourFile(i)
    /\ \A i \in 1..(Len(responses) - 1) : responses[i] = "ok"
    /\ (fpc = "returned" /\ AllOk) =>
           /\ Len(requests) = NumHours
           /\ fresult = [i \in 1..NumHours |-> out_file(HourFile(i))]

\* C3 witness: a call whose 19 requests all succeeded has returned
C3_Witness ==
    /\ fpc = "returned"
    /\ AllOk
    /\ Len(requests) = NumHours
    /\ Len(fresult) = NumHours

\* C20: a call that finds its output directory in place does not fail on the
\* creation of the directory, and like a call that created it, it requests
\* the forecast hours in order up to the first non-success response and
\* returns one path per hour when all succeed and the empty list otherwise:
\* requests and result depend on the start hour and the responses only.
C20_MkdirIdempotent ==
    /\ fpc # "raised"
    /\ \A i \in 1..Len(requests) : requests[i] = HourFile(i)
    /\ fpc = "loop" => Len(requests) = hour_idx - 1 /\ AllOk
    /\ fpc = "returned" =>
           /\ \/ AllOk /\ Len(requests) = NumHours
              \/ LastResponse = "fail"
           /\ fresult = IF AllOk THEN [i \in 1..NumHours |-> out_file(HourFile(i))]
                        ELSE <<>>

\* C20 witness: a call that found the directory in place has returned the
\* paths of all forecast hours
C20_Witness ==
    /\ found_dir
    /\ ncalls = MaxCalls
    /\ fpc = "returned"
    /\ AllOk
    /\ Len(fresult) = NumHours

(***************************************************************************)
(* Properties of LSMGridReader                                             *)
(***************************************************************************)
BandOps == {"resample", "to_utm"}

PipelineOps ==
    {"projection", "geotransform", "latlon", "coords", "getvar", "resample", "to_utm"}

\* the instants of an array of time values, whatever their representation
Hours(values) == [i \in 1..Len(values) |-> values[i][2]]

\* C4 (as claimed): resample and to_utm return a dataset with one band per
\* time step of the source, band i computed from source band i only, and with
\* the time coordinate of the source in the same order, for a source with any
\* number of time steps.
C4_OneBandPerTimeStep ==
    ret.op \in BandOps =>
        /\ ~Failed(ret)
        /\ Len(ret.val[1].vars[data_var].values) = before.dims[time_dim]
        /\ \A i \in 1..before.dims[time_dim] :
               ret.val[1].vars[data_var].values[i].from = before.vars[data_var].values[i]
        /\ Hours(ret.val[1].vars[time_var].values) = Hours(before.vars[time_var].values)

\* C5 (as claimed): no pipeline operation (projection, geotransform, latlon,
\* coords, getvar, resample, to_utm) changes the source dataset: its data
\* variables, its coordinate values, the values of the time variable included,
\* and its attributes are after the call what they were before.
C5_NoOperationChangesSource ==
    ret.op \in PipelineOps => obj = before

\* C5 (amended): projection, geotransform, latlon, coords and getvar leave the
\* source dataset as it was; resample and to_utm leave its attributes, its
\* dimensions, its data variables and its latitude/longitude as they were, and
\* change at most the representation of the time variable, whose values are
\* datetimes of the same instants after a call that returned a dataset.
C5_OnlyTimeIsConverted ==
    ret.op \in PipelineOps =>
        /\ ret.op \notin BandOps => obj = before
        /\ obj.attrs = before.attrs
        /\ obj.dims = before.dims
        /\ DOMAIN obj.vars = DOMAIN before.vars
        /\ \A n \in DOMAIN obj.vars \ {time_var} : obj.vars[n] = before.vars[n]
        /\ obj.vars[time_var].dims = before.vars[time_var].dims
        /\ obj.vars[time_var].attrs = before.vars[time_var].attrs
        /\ Hours(obj.vars[time_var].values) = Hours(before.vars[time_var].values)
        /\ (ret.op \in BandOps /\ ~Failed(ret)) =>
               /\ obj.vars[time_var].dtype = "datetime64"
               /\ \A i \in 1..Len(obj.vars[time_var].values) :
                      obj.vars[time_var].values[i][1] = "datetime64"

\* C5 witness: resample returned a dataset and has converted the WRF time
\* strings of the source to datetimes
C5_Witness ==
    /\ ret.op = "resample"
    /\ ~Failed(ret)
    /\ before.vars[time_var].dtype = "wrf"
    /\ before.dims[time_dim] = MaxTime
    /\ obj.vars[time_var].dtype = "datetime64"
    /\ obj # before

\* the rule of the resolution order that the metadata of the dataset selects
RuleOf(ds) ==
    IF "proj4" \in DOMAIN ds.attrs THEN "proj4"
    ELSE IF "MAP_PROJ" \in DOMAIN ds.attrs THEN "MAP_PROJ"
    ELSE IF y_var \in DOMAIN ds.vars /\ "grid_type" \in DOMAIN ds.vars[y_var].attrs
    THEN "grid_type"
    ELSE "default"

FreshProjection == ret.op = "projection" /\ ret.note # "memo"

\* C6 (as claimed): the projection is resolved by the first matching rule in
\* the order proj4 attribute, MAP_PROJ attribute, grid_type label of the
\* latitude variable, EPSG 4326; a lower rule is never applied when the
\* metadata of a higher one is present, and EPSG 4326 is the result whenever
\* none of the three is present.
C6_ResolutionOrder ==
    FreshProjection =>
        /\ ret.note = RuleOf(obj)
        /\ RuleOf(obj) = "default" =>
               /\ ~Failed(ret)
               /\ ret.val = Some(ImportFromEPSG4326)

\* C7 (as claimed): with no proj4 attribute and no MAP_PROJ attribute, a
\* grid_type label other than Lambert Conformal fails with the
\* unsupported-projection error (ValueError) whose message names the label;
\* no reference is returned or memoized.
C7_UnsupportedLabelError ==
    (/\ FreshProjection
     /\ RuleOf(obj) = "grid_type"
     /\ ~HasLambertConformal(obj.vars[y_var].attrs["grid_type"])) =>
        /\ Failed(ret)
        /\ IsNone(handle._projection)
        /\ ret.err[1].exc = "ValueError"
        /\ ret.err[1].arg = obj.vars[y_var].attrs["grid_type"]

MemoizedProperties == {"projection", "epsg", "geotransform", "affine"}

\* C8: on one handle every successful read of projection, epsg, geotransform
\* and affine returns the value of the first successful read, whatever reads
\* and attribute edits happen in between, and the memoized affine is the
\* affine of the memoized geotransform.
C8_ReadsReturnFirstValue ==
    /\ \A p \in MemoizedProperties :
           (ret.op = p /\ ~Failed(ret)) => ret.val = first_read[p]
    /\ ~IsNone(handle._affine) =>
           /\ ~IsNone(handle._geotransform)
           /\ handle._affine[1] = AffineFromGdal(handle._geotransform[1])

\* C8 witness: a later read of geotransform returns the first value although
\* the attributes, edited since, would now give another one
C8_Witness ==
    /\ ret.op = "geotransform"
    /\ ret.note = "memo"
    /\ nchanges > 0
    /\ ~Failed(geotransform(NewHandle, obj, 0))
    /\ geotransform(NewHandle, obj, 0).val # ret.val
    /\ ~IsNone(handle._affine)

FreshGeotransform ==
    ret.op = "geotransform" /\ ~Failed(ret) /\ ret.note # "memo"

\* C9 (as claimed): a stored geotransform attribute is used verbatim;
\* otherwise a reference that is not geographic takes the fit from native
\* coordinates and every geographic reference takes the fit from the
\* latitude/longitude arrays.
C9_PathByGeographic ==
    FreshGeotransform =>
        IF "geotransform" \in DOMAIN obj.attrs
        THEN ret.note = "stored" /\ ret.val = Some(obj.attrs["geotransform"])
        ELSE IF ~handle._projection[1].geographic
        THEN ret.note = "native"
        ELSE ret.note = "latlon"

\* C9 (amended): a stored geotransform attribute is used verbatim; otherwise
\* a reference whose authority code is not 4326 - one that names no authority
\* included, geographic or not - takes the fit from native coordinates, and
\* only a reference with the code 4326 takes the fit from the
\* latitude/longitude arrays.
C9_PathByAuthorityCode ==
    FreshGeotransform =>
        IF "geotransform" \in DOMAIN obj.attrs
        THEN ret.note = "stored" /\ ret.val = Some(obj.attrs["geotransform"])
        ELSE IF handle._projection[1].authority # Some("4326")
        THEN ret.note = "native"
        ELSE ret.note = "latlon"

\* C9 witness: a geographic reference without authority code took the fit
\* from native coordinates
C9_Witness ==
    /\ FreshGeotransform
    /\ "geotransform" \notin DOMAIN obj.attrs
    /\ handle._projection[1].geographic
    /\ IsNone(handle._projection[1].authority)
    /\ ret.note = "native"

\* C10 (as claimed): getvar called with its default bounds (start 0, end -1)
\* returns all x_size columns and all y_size rows of the variable.
C10_DefaultWindowReturnsAll ==
    (ret.op = "getvar" /\ ret.args = <<DefaultWindow, DefaultWindow>> /\ ~Failed(ret)) =>
        \A t \in 1..Len(ret.val[1].values) :
            /\ Len(ret.val[1].values[t]) = obj.dims[y_dim]
            /\ \A y \in 1..Len(ret.val[1].values[t]) :
                   Len(ret.val[1].values[t][y]) = obj.dims[x_dim]

(***************************************************************************)
(* Properties of getvar, latlon, coords, pixel2coord, dx and dy            *)
(***************************************************************************)
\* the dataset without the WRF attributes that holds the variable of ds with
\* the rows of every time step already flipped
FlippedCopy(ds) ==
    [ds EXCEPT !.attrs = [k \in DOMAIN ds.attrs \ DOMAIN WrfAttrs |-> ds.attrs[k]],
               !.vars[data_var].values =
                   [t \in 1..Len(ds.vars[data_var].values) |->
                       ReverseRows(ds.vars[data_var].values[t])]]

IsWrf(ds) == "MAP_PROJ" \in DOMAIN ds.attrs

\* C11 (as claimed): on a dataset with the MAP_PROJ attribute, getvar with a
\* y window returns the rows that the same window selects from the y-flipped
\* copy of the variable, that is what a dataset without the attribute holding
\* the flipped data returns, for every window.
C11_WrfWindowEqualsFlippedWindow ==
    (ret.op = "getvar" /\ ~Failed(ret) /\ IsWrf(obj)) =>
        ret.val[1].values =
            getvar(FlippedCopy(obj), data_var, ret.args[1][1], ret.args[1][2],
                   ret.args[2][1], ret.args[2][2], <<>>, <<>>).val[1].values

\* a call of getvar on the 4-D variable that omits a reduction argument
OmitsReduction ==
    /\ ret.op = "getvar"
    /\ ret.note = level_var
    /\ (IsNone(ret.args[3]) \/ IsNone(ret.args[4]))

\* C12 (as claimed): getvar on a variable with four dimensions fails with the
\* missing-reduction error (ValueError) whose message names the variable,
\* whenever calc_4d_method or calc_4d_dim is omitted; it returns no data then.
C12_MissingReductionError ==
    OmitsReduction =>
        /\ Failed(ret)
        /\ IsNone(ret.val)
        /\ ret.err[1].exc = "ValueError"
        /\ ret.err[1].arg = level_var

\* C16: a successful read of latlon on a dataset with the MAP_PROJ attribute
\* returns the latitude and longitude of the first time step with row i of the
\* result being stored row y_size-1-i; on every other dataset it returns the
\* stored arrays in their order; reversing the rows of a result twice gives
\* the result back.
C16_LatlonReversesWrfRows ==
    (ret.op = "latlon" /\ ~Failed(ret)) =>
        LET lat == ret.val[1][1]
            lon == ret.val[1][2]
            y_size == obj.dims[y_dim]
        IN  /\ IF IsWrf(obj)
               THEN /\ Len(lat) = y_size
                    /\ Len(lon) = y_size
                    /\ \A i \in 1..y_size :
                           /\ lat[i] = obj.vars[y_var].values[1][y_size + 1 - i]
                           /\ lon[i] = obj.vars[x_var].values[1][y_size + 1 - i]
               ELSE /\ lat = obj.vars[y_var].values
                    /\ lon = obj.vars[x_var].values
            /\ ReverseRows(ReverseRows(lat)) = lat
            /\ ReverseRows(ReverseRows(lon)) = lon

\* C16 witness: latlon of a WRF dataset with the most rows returned the
\* latitudes in another order than the stored one
C16_Witness ==
    /\ ret.op = "latlon"
    /\ ~Failed(ret)
    /\ IsWrf(obj)
    /\ obj.dims[y_dim] = MaxSize
    /\ ret.val[1][1] # obj.vars[y_var].values[1]
    /\ ret.val[1][1][1] = obj.vars[y_var].values[1][MaxSize]

\* a call of coords that got past the reads of the projection and of the
\* affine: it returned, or it failed on a name of its own
CoordsGotToReturn ==
    /\ ret.op = "coords"
    /\ Failed(ret) => ret.err[1].exc = "UnboundLocalError"

\* the array a has the dimensions of `shape`
HasShape(a, shape) ==
    /\ a.ndim = Len(shape)
    /\ Len(a.values) = shape[1]
    /\ Len(shape) = 2 => \A y \in 1..Len(a.values) : Len(a.values[y]) = shape[2]

\* C17 (as claimed): coords returns (y, x) whose dimensionality follows
\* as_2d on every path, with readable latitude/longitude variables and
\* without: 2-D arrays of shape (y_size, x_size) with as_2d=True, 1-D arrays
\* of lengths y_size and x_size with as_2d=False.
C17_DimensionalityFollowsFlag ==
    CoordsGotToReturn =>
        /\ ~Failed(ret)
        /\ IF ret.args[1]
           THEN /\ HasShape(ret.val[1][1], <<obj.dims[y_dim], obj.dims[x_dim]>>)
                /\ HasShape(ret.val[1][2], <<obj.dims[y_dim], obj.dims[x_dim]>>)
           ELSE /\ HasShape(ret.val[1][1], <<obj.dims[y_dim]>>)
                /\ HasShape(ret.val[1][2], <<obj.dims[x_dim]>>)

\* the pixel indices of the open dataset
PixelIndices ==
    {<<col, row>> : col \in 0..(obj.dims[x_dim] - 1), row \in 0..(obj.dims[y_dim] - 1)}

\* C18: for every geotransform <<c, a, b, f, d, e>> with a*e - b*d # 0,
\* pixel2coord(col, row) is (c + a*(col+0.5) + b*(row+0.5),
\* f + d*(col+0.5) + e*(row+0.5)); no other pixel of the grid has the same
\* coordinates; and the inverse affine maps the result to (col+0.5, row+0.5).
C18_PixelCenterInvertible ==
    (/\ ret.op = "pixel2coord"
     /\ obj.attrs["geotransform"][2] * obj.attrs["geotransform"][6]
            - obj.attrs["geotransform"][3] * obj.attrs["geotransform"][5] # 0) =>
        LET g == obj.attrs["geotransform"]
            col == ret.args[1]
            row == ret.args[2]
            x == ret.val[1][1]
            y == ret.val[1][2]
            back == AffineInverseApply(AffineFromGdal(g), x, y)
        IN  /\ ~Failed(ret)
            /\ 2 * (x - g[1]) = g[2] * (2 * col + 1) + g[3] * (2 * row + 1)
            /\ 2 * (y - g[4]) = g[5] * (2 * col + 1) + g[6] * (2 * row + 1)
            /\ \A p \in PixelIndices :
                   pixel2coord(handle, obj, p[1], p[2], 0).val = ret.val
                       => p = <<col, row>>
            /\ 2 * back[1][1] = (2 * col + 1) * back[1][2]
            /\ 2 * back[2][1] = (2 * row + 1) * back[2][2]

\* C18 witness: pixel2coord of the last pixel of a grid whose geotransform
\* has both rotation terms and a non-zero determinant
C18_Witness ==
    /\ ret.op = "pixel2coord"
    /\ ~Failed(ret)
    /\ ret.args = <<MaxSize - 1, MaxSize - 1>>
    /\ obj.attrs["geotransform"][3] # 0
    /\ obj.attrs["geotransform"][5] # 0
    /\ AffineDeterminant(AffineFromGdal(obj.attrs["geotransform"])) # 0

Abs(n) == IF n < 0 THEN -n ELSE n

\* C19 (as claimed): dx is the pixel width coefficient of the geotransform
\* and dy the absolute value of its signed pixel height coefficient, so that
\* dy is never negative, whatever the sign of the stored height.
C19_CellSizesCanonical ==
    /\ ret.op = "dx" =>
           /\ ~Failed(ret)
           /\ ret.val[1] = handle._geotransform[1][2]
    /\ ret.op = "dy" =>
           /\ ~Failed(ret)
           /\ ret.val[1] = Abs(handle._geotransform[1][6])
           /\ ret.val[1] >= 0

\* C28: a read of geotransform or coords ends with a value or an error and
\* enters the cycle geotransform -> coords -> pixel2coord -> affine ->
\* geotransform at most once, so it never runs into the recursion limit.
C28_CycleEnteredAtMostOnce ==
    (IsOpen /\ ret.op \in {"geotransform", "coords"}) =>
        ~(Failed(ret) /\ ret.err[1].exc = "RecursionError")

\* the band arrays that the last call of resample, to_utm or to_tif paired
\* with the geotransform of the handle
PairedBands ==
    IF ret.op = "to_tif" THEN <<ret.val[1].from>>
    ELSE [t \in 1..Len(ret.val[1].vars[data_var].values) |->
             ret.val[1].vars[data_var].values[t].from]

\* the bands of the variable in the row order of latlon
BandsAsLatlon(ds) ==
    [t \in 1..Len(ds.vars[data_var].values) |->
        IF IsWrf(ds) THEN ReverseRows(ds.vars[data_var].values[t])
        ELSE ds.vars[data_var].values[t]]

\* C27: on one handle the rows of the data and of the coordinates agree: the
\* band arrays that resample, to_utm and to_tif pair with the geotransform
\* have the row order of the latitude/longitude arrays of latlon (reversed
\* for a dataset with the MAP_PROJ attribute), and row i of a getvar result
\* is row i of the variable in the row order of latlon.
C27_RowsOfDataAndCoordinatesAgree ==
    /\ (ret.op \in {"resample", "to_utm", "to_tif"} /\ ~Failed(ret)) =>
           \A t \in 1..Len(PairedBands) :
               \E b \in 1..Len(before.vars[data_var].values) :
                   PairedBands[t] = BandsAsLatlon(before)[b]
    /\ (ret.op = "getvar" /\ ret.args = <<DefaultWindow, DefaultWindow>> /\ ~Failed(ret)) =>
           \A t \in 1..Len(ret.val[1].values) :
               \A i \in 1..Len(ret.val[1].values[t]) :
                   \A x \in 1..Len(ret.val[1].values[t][i]) :
                       ret.val[1].values[t][i][x] = BandsAsLatlon(obj)[t][i][x]

\* the grid whose proj4 and geotransform the open output dataset was given
ExportedGrid ==
    IF exported_by = "resample"
    THEN [proj4 |-> MATCH_GRID.proj4, geotransform |-> MATCH_GRID.geotransform]
    ELSE [proj4 |-> P4_UTM, geotransform |-> GT_OTHER]

\* C29: a dataset returned by resample or to_utm has the attributes proj4 and
\* geotransform of the resampled grid and no MAP_PROJ attribute; on a handle
\* of it projection is resolved from the proj4 attribute, geotransform is the
\* stored attribute as it is, and latlon returns the stored rows in their
\* order, whatever the source dataset was.
C29_OutputsSelfDescribing ==
    exported_by # "" =>
        /\ DOMAIN obj.attrs = {"proj4", "geotransform"}
        /\ obj.attrs["proj4"] = ExportedGrid.proj4
        /\ obj.attrs["geotransform"] = ExportedGrid.geotransform
        /\ ret.op \in {"projection", "geotransform", "latlon"} => ~Failed(ret)
        /\ ret.op = "projection" =>
               /\ ret.note \in {"proj4", "memo"}
               /\ ret.val[1] = ImportFromProj4(obj.attrs["proj4"])
        /\ ret.op = "geotransform" =>
               /\ ret.note \in {"stored", "memo"}
               /\ ret.val[1] = obj.attrs["geotransform"]
        /\ ret.op = "latlon" =>
               /\ ret.note # "wrf"
               /\ ret.val[1] = <<obj.vars[y_var].values, obj.vars[x_var].values>>

\* C29 witness: latlon read on the output of a source without a stored
\* geotransform, an output of two rows that a reversal would change
C29_Witness ==
    /\ exported_by # ""
    /\ obj.vars[data_var].values[1].gt # GT_STORED
    /\ ret.op = "latlon"
    /\ ~Failed(ret)
    /\ ReverseRows(ret.val[1][1]) # ret.val[1][1]

(***************************************************************************)
(* Properties of HmetFile                                                  *)
(***************************************************************************)
\* the fields of every line of a text
RECURSIVE SplitLines(_)
SplitLines(text) ==
    IF text = <<>> THEN <<>>
    ELSE <<SelectSeq(SubSeq(text, 1, LineEnd(text, 1)), LAMBDA tok : ~IsSpace(tok))>>
         \o SplitLines(SubSeq(text, LineEnd(text, 1) + 1, Len(text)))

\* a line with fewer than 11 fields (a blank line has none) or with a date
\* field that is not an integer
Malformed(sline) ==
    \/ Len(sline) < 11
    \/ \E j \in 1..4 : sline[j].fmt # "d"

HasMalformedLine(text) ==
    \E i \in 1..Len(SplitLines(text)) : Malformed(SplitLines(text)[i])

\* C13 (as claimed): reading a file is all-or-nothing: if any line is
\* malformed the read fails and the file object holds no record of the file
\* afterwards, none of the well-formed lines before the malformed one either.
C13_ReadAllOrNothing ==
    (hret.op = "read" /\ HasMalformedLine(openFile)) =>
        /\ Failed(hret)
        /\ hmetRecords = <<>>

IsNumber(x) == x.type \in {"int", "float"}

SameNumber(x, t) == IsNumber(x) /\ Thousandths(x) = t

\* the record read equals the record written within the precision of the
\* format: pressure to 3 significant figures, radiation to 2 decimals
SameWithinPrecision(read, orig) ==
    /\ read.hmetDateTime = orig.hmetDateTime
    /\ SameNumber(read.barometricPress,
                  RoundTo(Thousandths(orig.barometricPress),
                          UnitOf3Digits(Thousandths(orig.barometricPress), 1)))
    /\ SameNumber(read.relHumidity, Thousandths(orig.relHumidity))
    /\ SameNumber(read.totalSkyCover, Thousandths(orig.totalSkyCover))
    /\ SameNumber(read.windSpeed, Thousandths(orig.windSpeed))
    /\ SameNumber(read.dryBulbTemp, Thousandths(orig.dryBulbTemp))
    /\ SameNumber(read.directRad, RoundTo(Thousandths(orig.directRad), 10))
    /\ SameNumber(read.globalRad, RoundTo(Thousandths(orig.globalRad), 10))

\* C14 (as claimed): writing records and reading the written text back gives
\* as many records in the same order, each with the year, month, day and hour
\* and with field values equal to the originals within the precision of the
\* format, with no conversion by the caller.
C14_RoundTrip ==
    hret.op = "readback" =>
        /\ ~Failed(hret)
        /\ Len(hmetRecords) = Len(hsource)
        /\ \A i \in 1..Len(hmetRecords) : SameWithinPrecision(hmetRecords[i], hsource[i])

\* the text that each field of a record is written as, in the order year,
\* month, day, hour, pressure, humidity, sky cover, wind speed, temperature,
\* direct radiation, global radiation
WrittenAs(r) ==
    <<PyStr("d", r.hmetDateTime.year), PyStr("d", r.hmetDateTime.month),
      PyStr("d", r.hmetDateTime.day), PyStr("d", r.hmetDateTime.hour),
      PyStr("g3", RoundTo(Thousandths(r.barometricPress),
                          UnitOf3Digits(Thousandths(r.barometricPress), 1))),
      FormatS(r.relHumidity), FormatS(r.totalSkyCover), FormatS(r.windSpeed),
      FormatS(r.dryBulbTemp),
      PyStr("f2", RoundTo(Thousandths(r.directRad), 10)),
      PyStr("f2", RoundTo(Thousandths(r.globalRad), 10))>>

\* C15 (as claimed): writing a series emits one newline-terminated line per record, in
\* record order, each with 11 tab-separated fields in the order year, month,
\* day, hour, pressure, humidity, sky cover, wind speed, temperature, direct
\* radiation, global radiation, and no header line; no record, no text.
C15_OneLinePerRecord ==
    hret.op = "write" =>
        /\ ~Failed(hret)
        /\ Len(openFile) = 22 * Len(hmetRecords)
        /\ \A i \in 1..Len(hmetRecords) : \A k \in 1..22 :
               openFile[22 * (i - 1) + k] =
                   IF k = 22 THEN NEWLINE
                   ELSE IF k % 2 = 0 THEN TAB
                   ELSE WrittenAs(hmetRecords[i])[(k + 1) \div 2]

(***************************************************************************)
(* Properties of GSSHAFramework                                            *)
(***************************************************************************)
\* C21 (as claimed): the event manager is LongTermMode exactly when none of
\* the eight LSM settings is None at construction, and EventMode otherwise;
\* and every call of prepare_wrf_data that run_forecast makes is made on an
\* event manager built as LongTermMode, whatever _update_class_var calls
\* came between construction and run_forecast.
C21_WrfOnlyOnLongTermMode ==
    /\ (kpc = "ready" /\ nupdates = 0) =>
           event_manager = IF \A n \in LsmVars : ~IsNone(self[n])
                           THEN "LongTermMode" ELSE "EventMode"
    /\ \A i \in 1..Len(calls) :
           calls[i].fn = "prepare_wrf_data" => calls[i].on = "LongTermMode"

WriteHotstartNames == {"WRITE_OV_HOTSTART", "WRITE_CHAN_HOTSTART", "WRITE_SM_HOTSTART"}

ReadHotstartNames == {"READ_OV_HOTSTART", "READ_CHAN_HOTSTART", "READ_SM_HOTSTART"}

\* the card value is the quoted path ../hotstart/<file>, where the file name
\* starts with the project name and holds the time string
PointsIntoHotstart(v, time_str) ==
    /\ v.quotes
    /\ Len(v.path) = 3
    /\ v.path[1] = <<"..">>
    /\ v.path[2] = <<"hotstart">>
    /\ v.path[3][1] = project_name
    /\ v.path[3][3] = time_str

\* C22: after the hotstart step of run_forecast the three WRITE hotstart
\* cards are all present when write_hotstart is true, each with a path into
\* ../hotstart that holds the project name and the simulation end time, and
\* all absent when it is false; the project file that run() writes holds
\* all three or none of them.
C22_WriteCardsAllOrNone ==
    kpc = "done" =>
        /\ IF flags.write_hotstart
           THEN \A n \in WriteHotstartNames :
                    /\ n \in DOMAIN cards_at_run[1]
                    /\ PointsIntoHotstart(cards_at_run[1][n], simulation_end)
           ELSE WriteHotstartNames \cap DOMAIN cards_at_run[1] = {}
        /\ WriteHotstartNames \cap DOMAIN written_project[1] \in {{}, WriteHotstartNames}
        /\ WriteHotstartNames \cap DOMAIN projectCards \in {{}, WriteHotstartNames}

\* C22 witness: a project file that held one of the three cards was run with
\* write_hotstart and was written with all three
C22_Witness ==
    /\ kpc = "done"
    /\ flags.write_hotstart
    /\ WriteHotstartNames \cap DOMAIN cards_at_call = {"WRITE_OV_HOTSTART"}
    /\ WriteHotstartNames \subseteq DOMAIN written_project[1]

\* C23: with read_hotstart, run_forecast leaves READ_OV_HOTSTART set exactly
\* when the .ovh file of the simulation start time exists, READ_SM_HOTSTART
\* exactly when the .smh file exists, and READ_CHAN_HOTSTART exactly when
\* both the .qht and the .dht file exist; a card that is set holds the quoted
\* path ../hotstart/<file>, and each card follows its own files only.
C23_ReadCardsFollowFiles ==
    (kpc = "done" /\ flags.read_hotstart) =>
        LET cards == cards_at_run[1]
            start == simulation_start
            ovh == << <<"hotstart">>, <<project_name, "_ov_hotstart_", start, ".ovh">> >>
            smh == << <<"hotstart">>, <<project_name, "_sm_hotstart_", start, ".smh">> >>
            qht == << <<"hotstart">>, <<project_name, "_chan_hotstart_", start, ".qht">> >>
            dht == << <<"hotstart">>, <<project_name, "_chan_hotstart_", start, ".dht">> >>
        IN  /\ "READ_OV_HOTSTART" \in DOMAIN cards <=> ovh \in files
            /\ "READ_SM_HOTSTART" \in DOMAIN cards <=> smh \in files
            /\ "READ_CHAN_HOTSTART" \in DOMAIN cards <=> (qht \in files /\ dht \in files)
            /\ \A n \in ReadHotstartNames \cap DOMAIN cards :
                   PointsIntoHotstart(cards[n], start)
            /\ ReadHotstartNames \cap DOMAIN written_project[1]
                   = ReadHotstartNames \cap DOMAIN cards

\* C23 witness: the overland and the soil moisture card were set and the
\* channel card, which the project file held, was deleted because only one
\* of its two files exists
C23_Witness ==
    /\ kpc = "done"
    /\ flags.read_hotstart
    /\ "READ_CHAN_HOTSTART" \in DOMAIN cards_at_call
    /\ "READ_OV_HOTSTART" \notin DOMAIN cards_at_call
    /\ WithExt(chan_hotstart(simulation_start), ".qht") \in files
    /\ WithExt(chan_hotstart(simulation_start), ".dht") \notin files
    /\ ReadHotstartNames \cap DOMAIN written_project[1]
           = {"READ_OV_HOTSTART", "READ_SM_HOTSTART"}

\* C30 (as claimed): without read_hotstart, the READ hotstart cards of the
\* project file written by run() are the cards the project file held when
\* run_forecast was called, with the values they had.
C30_ReadCardsUntouched ==
    (kpc = "done" /\ ~flags.read_hotstart) =>
        /\ ReadHotstartNames \cap DOMAIN written_project[1]
               = ReadHotstartNames \cap DOMAIN cards_at_call
        /\ \A n \in ReadHotstartNames \cap DOMAIN cards_at_call :
               written_project[1][n] = cards_at_call[n]

\* C26: with hotstart_minimal_mode, the project file that run() writes holds
\* no card of GSSHA_OPTIONAL_OUTPUT_CARDS, holds SUPER_QUIET, and holds every
\* card of GSSHA_REQUIRED_OUTPUT_PATH_CARDS that was there when run() was
\* entered; without it, every card that was there when run() was entered is
\* in the project file written.
C26_MinimalModeDeletesOptionalOnly ==
    kpc = "done" =>
        LET entered == DOMAIN cards_at_run[1]
            wrote == DOMAIN written_project[1]
        IN  IF flags.hotstart_minimal_mode
            THEN /\ \A i \in 1..Len(GSSHA_OPTIONAL_OUTPUT_CARDS) :
                        GSSHA_OPTIONAL_OUTPUT_CARDS[i] \notin wrote
                 /\ "SUPER_QUIET" \in wrote
                 /\ \A i \in 1..Len(GSSHA_REQUIRED_OUTPUT_PATH_CARDS) :
                        GSSHA_REQUIRED_OUTPUT_PATH_CARDS[i] \in entered
                            => GSSHA_REQUIRED_OUTPUT_PATH_CARDS[i] \in wrote
                 /\ entered \ wrote \subseteq Range(GSSHA_OPTIONAL_OUTPUT_CARDS)
            ELSE entered \subseteq wrote

\* C26 witness: a minimal run deleted the optional cards DEPTH and OPTIMIZE of
\* the project file and kept the required cards SUMMARY and OUTLET_HYDRO
C26_Witness ==
    /\ kpc = "done"
    /\ flags.hotstart_minimal_mode
    /\ {"DEPTH", "OPTIMIZE", "SUMMARY", "OUTLET_HYDRO"} \subseteq DOMAIN cards_at_run[1]
    /\ {"DEPTH", "OPTIMIZE"} \cap DOMAIN written_project[1] = {}
    /\ {"SUMMARY", "OUTLET_HYDRO", "SUPER_QUIET"} \subseteq DOMAIN written_project[1]

\* the number of calls of fn among the calls of run_forecast
Count(fn) == Cardinality({i \in 1..Len(calls) : calls[i].fn = fn})

\* the decisions of the streamflow step of run_forecast
StreamflowDecisions ==
    LET given == Truthy(attrs_at_call["connection_list_file"])
    IN  /\ Count("download_spt_forecast") =
               IF IsNone(attrs_at_call["path_to_rapid_qout"]) /\ given THEN 1 ELSE 0
        /\ Count("prepare_rapid_streamflow") =
               IF kpc = "done" /\ given /\ ~IsNone(self["path_to_rapid_qout"])
               THEN 1 ELSE 0
        /\ (Count("download_spt_forecast") = 1
                /\ Count("download_prediction_dataset") = 0)
               => Count("prepare_rapid_streamflow") = 0
        /\ \A i \in 1..Len(calls) :
               calls[i].fn = "download_prediction_dataset" =>
                   i > 1 /\ calls[i - 1].fn = "download_spt_forecast"

RunIsLastCall ==
    /\ Count("run") = 1
    /\ calls[Len(calls)].fn = "run"
    /\ ~IsNone(written_project)

\* C24 (as claimed): run_forecast attempts the download exactly when no Qout
\* path is set and a connection list file is given; it calls
\* prepare_rapid_streamflow exactly when a connection list file is given and
\* a Qout path is there after that step, and not when the download was
\* skipped; and in every case it calls run() exactly once, as its last step.
C24_RunAlwaysCalledOnce ==
    kret.op = "run_forecast" => StreamflowDecisions /\ RunIsLastCall

\* C24 (amended): the download and prepare_rapid_streamflow are decided as
\* claimed; run() is called exactly once, as the last step, in every case in
\* which download_spt_forecast does not raise; when it raises (ValueError
\* for a mix of settings, IndexError when the download left no Qout file),
\* run_forecast raises it, prepare_rapid_streamflow and run() are not called
\* and no project file is written.
C24_RunCalledOnceUnlessDownloadRaises ==
    kret.op = "run_forecast" =>
        /\ StreamflowDecisions
        /\ IF kpc = "done" THEN RunIsLastCall
           ELSE /\ kret.err[1].exc \in {"ValueError", "IndexError"}
                /\ calls[Len(calls)].fn \in
                       {"download_spt_forecast", "download_prediction_dataset"}
                /\ Count("prepare_rapid_streamflow") = 0
                /\ Count("run") = 0
                /\ IsNone(written_project)

\* C24 witness: the download was attempted with only some of its settings
\* and run_forecast raised without calling run()
C24_Witness ==
    /\ kret.op = "run_forecast"
    /\ kpc = "raised"
    /\ Count("download_spt_forecast") = 1
    /\ Count("run") = 0

\* the number of the six settings of download_spt_forecast that are None
NoneSettings == Cardinality({n \in SptVars : IsNone(self[n])})

\* C25: download_spt_forecast has exactly three outcomes, decided by its six
\* settings: all six set, the download is performed and a Qout path is
\* returned; all six None, nothing is downloaded and None is returned; any
\* mix, a ValueError is raised and nothing is downloaded.
C25_ThreeOutcomes ==
    kret.op = "download_spt_forecast" =>
        IF NoneSettings = 0
        THEN kret.downloaded /\ IsNone(kret.err) /\ ~IsNone(kret.val)
        ELSE IF NoneSettings = Cardinality(SptVars)
        THEN ~kret.downloaded /\ IsNone(kret.err) /\ IsNone(kret.val)
        ELSE /\ ~kret.downloaded
             /\ ~IsNone(kret.err)
             /\ kret.err[1].exc = "ValueError"

====
